---- MODULE Spec2Model ----
(***************************************************************************)
(* GazeTracker: the three-position calibration run (CalibrationScreen),    *)
(* the persisted calibration record (AsyncStorage key 'gazeCalibration')   *)
(* and the CalibrationService that applies it to raw gaze values.          *)
(*                                                                         *)
(* Numbers.  A JavaScript number is modelled as a record [n, d]: the exact *)
(* rational n/d in lowest terms when d > 0, and a non-finite value when    *)
(* d = 0 (n = 0: NaN, n = 1: +Infinity, n = -1: -Infinity).  Rounding is   *)
(* not modelled; division by zero, Infinity and NaN are.                   *)
(***************************************************************************)
EXTENDS Integers, Sequences, FiniteSets, TLC

\* ------------------------------------------------------------------------
\* Numbers
\* ------------------------------------------------------------------------
Abs(i) == IF i < 0 THEN -i ELSE i

Sign(i) == IF i < 0 THEN -1 ELSE IF i > 0 THEN 1 ELSE 0

RECURSIVE Gcd(_, _)
Gcd(a, b) == IF b = 0 THEN a ELSE Gcd(b, a % b)

NaN == [n |-> 0, d |-> 0]

Inf(s) == [n |-> s, d |-> 0]

\* the rational a/b, b # 0, in lowest terms with a positive denominator
Rat(a, b) ==
    LET g == Gcd(Abs(a), Abs(b))
        s == Sign(b)
    IN  [n |-> (s * a) \div g, d |-> Abs(b) \div g]

Int2Num(i) == [n |-> i, d |-> 1]

isFinite(x) == x.d # 0

isNaN(x) == x.d = 0 /\ x.n = 0

Neg(x) == [n |-> -x.n, d |-> x.d]

Add(x, y) ==
    IF isNaN(x) \/ isNaN(y) THEN NaN
    ELSE IF ~isFinite(x) /\ ~isFinite(y) THEN (IF x.n = y.n THEN x ELSE NaN)
    ELSE IF ~isFinite(x) THEN x
    ELSE IF ~isFinite(y) THEN y
    ELSE LET g == Gcd(x.d, y.d)
             l == (x.d \div g) * y.d
         IN  Rat(x.n * (l \div x.d) + y.n * (l \div y.d), l)

Sub(x, y) == Add(x, Neg(y))

Mul(x, y) ==
    IF isNaN(x) \/ isNaN(y) THEN NaN
    ELSE IF ~isFinite(x) \/ ~isFinite(y)
         THEN (IF x.n = 0 \/ y.n = 0 THEN NaN ELSE Inf(Sign(x.n) * Sign(y.n)))
    ELSE IF x.n = 0 \/ y.n = 0 THEN Int2Num(0)
    ELSE LET g1 == Gcd(Abs(x.n), y.d)
             g2 == Gcd(Abs(y.n), x.d)
         IN  [n |-> (x.n \div g1) * (y.n \div g2),
              d |-> (x.d \div g2) * (y.d \div g1)]

\* x / y as JavaScript computes it: finite/0 is an Infinity, 0/0 is NaN
Div(x, y) ==
    IF isNaN(x) \/ isNaN(y) THEN NaN
    ELSE IF ~isFinite(x) THEN (IF ~isFinite(y) THEN NaN
                               ELSE Inf(x.n * (IF y.n < 0 THEN -1 ELSE 1)))
    ELSE IF ~isFinite(y) THEN Int2Num(0)
    ELSE IF y.n = 0 THEN (IF x.n = 0 THEN NaN ELSE Inf(Sign(x.n)))
    ELSE Mul(x, [n |-> Sign(y.n) * y.d, d |-> Abs(y.n)])

\* x < y as JavaScript computes it: every comparison with NaN is false
Less(x, y) ==
    IF isNaN(x) \/ isNaN(y) THEN FALSE
    ELSE IF ~isFinite(x) THEN x.n = -1 /\ y # x
    ELSE IF ~isFinite(y) THEN y.n = 1
    ELSE Sub(x, y).n < 0

NumMax(x, y) == IF isNaN(x) \/ isNaN(y) THEN NaN ELSE IF Less(x, y) THEN y ELSE x

NumMin(x, y) == IF isNaN(x) \/ isNaN(y) THEN NaN ELSE IF Less(y, x) THEN y ELSE x

\* Math.abs(x) < 1e-10, with 1e10 = EpsRoot * EpsRoot to stay inside TLC's
\* integers: |n|/d < 1/1e10  <=>  |n| * 1e5 < ceil(d / 1e5)
EpsRoot == 100000

\* the comparison with 1 in the place of 1e-10
BelowOne(x) == isFinite(x) /\ Abs(x.n) < x.d

BelowEpsilon(x) ==
    /\ isFinite(x)
    /\ \/ x.n = 0
       \/ /\ Abs(x.n) < 20000
          /\ Abs(x.n) * EpsRoot < (x.d + (EpsRoot - 1)) \div EpsRoot

\* ------------------------------------------------------------------------
\* Bounds and inputs of the model
\* ------------------------------------------------------------------------
\* the points hold at most MaxExtra samples beyond those that the position
\* index and the running frame count account for
MaxExtra == 1

\* Date.now() is read at most MaxClock times
MaxClock == 1

\* in one run at most MaxLag frames reach the callback of another step while
\* the collection of the current step is running, that is, between a press
\* of Start and the render that subscribes the callback of the current step
MaxLag == 0

\* at most MaxRuns calibration runs are begun, by opening the screen or by Reset
MaxRuns == 2

\* at most MaxPending storage operations are awaited at the same time
MaxPending == 2

\* ------------------------------------------------------------------------
\* CalibrationScreen: constants and pure functions
\* ------------------------------------------------------------------------
FRAMES_PER_POSITION == 15

MIN_POINT_FRAMES == 5

\* confidence is carried in tenths; the callback accepts confidence > 0.3
MIN_CONFIDENCE_TENTHS == 3

Positions == <<"left", "center", "right">>

PositionSet == {"left", "center", "right"}

stepConfig ==
    [left   |-> [position |-> "left",   targetValue |-> -1],
     center |-> [position |-> "center", targetValue |-> 0],
     right  |-> [position |-> "right",  targetValue |-> 1]]

indexOf(step) == CHOOSE i \in 1..3 : Positions[i] = step

\* reduce((a, b) => a + b, 0): the sum of the values; the sums are exact, so
\* the two halves are summed apart and the order of the additions is free
RECURSIVE SumSeq(_)
SumSeq(s) ==
    IF s = <<>> THEN Int2Num(0)
    ELSE IF Len(s) = 1 THEN Add(Int2Num(0), s[1])
    ELSE LET half == Len(s) \div 2
         IN  Add(SumSeq(SubSeq(s, 1, half)), SumSeq(SubSeq(s, half + 1, Len(s))))

\* points.find(p => p.position === step): the index of the point, 0 if none
findPoint(pts, step) ==
    IF \E i \in 1..Len(pts) : pts[i].position = step
    THEN CHOOSE i \in 1..Len(pts) :
            /\ pts[i].position = step
            /\ \A j \in 1..(i - 1) : pts[j].position # step
    ELSE 0

\* the update that creates a point for every frame
addGazeValueNewPoint(pts, step, gazeValue) ==
    Append(pts, [position    |-> step,
                 gazeValues  |-> <<gazeValue>>,
                 targetValue |-> stepConfig[step].targetValue])

\* the functional update of setCalibrationData in the frame callback
addGazeValue(pts, step, gazeValue) ==
    IF findPoint(pts, step) # 0
    THEN [i \in 1..Len(pts) |->
            IF pts[i].position = step
            THEN [pts[i] EXCEPT !.gazeValues = Append(@, gazeValue)]
            ELSE pts[i]]
    ELSE Append(pts, [position    |-> step,
                      gazeValues  |-> <<gazeValue>>,
                      targetValue |-> stepConfig[step].targetValue])

\* the filter with confidence >= 0.3 in the place of confidence > 0.3
frameAcceptedAtThreshold(frame) ==
    /\ frame.gazeData # <<>>
    /\ frame.confidence >= MIN_CONFIDENCE_TENTHS

\* the frame callback's filter
frameAccepted(frame) ==
    /\ frame.gazeData # <<>>
    /\ frame.confidence > MIN_CONFIDENCE_TENTHS

identityTransform == [slope |-> Int2Num(1), intercept |-> Int2Num(0)]

average(point) ==
    [target   |-> Int2Num(point.targetValue),
     measured |-> Div(SumSeq(point.gazeValues), Int2Num(Len(point.gazeValues)))]

measuredOf(avgs) == [i \in 1..Len(avgs) |-> avgs[i].measured]

targetOf(avgs) == [i \in 1..Len(avgs) |-> avgs[i].target]

RECURSIVE MaxMeasured(_)
MaxMeasured(avgs) ==
    IF Len(avgs) = 1 THEN avgs[1].measured
    ELSE NumMax(avgs[1].measured, MaxMeasured(Tail(avgs)))

RECURSIVE MinMeasured(_)
MinMeasured(avgs) ==
    IF Len(avgs) = 1 THEN avgs[1].measured
    ELSE NumMin(avgs[1].measured, MinMeasured(Tail(avgs)))

\* the range mapping without its guard against an empty range
rangeFallbackUnguarded(validAverages, n, sumX) ==
    LET measuredRange == Sub(MaxMeasured(validAverages), MinMeasured(validAverages))
        slope == Div(Int2Num(2), measuredRange)
        intercept == Mul(Div(Neg(sumX), n), slope)
    IN  [slope |-> slope, intercept |-> intercept]

\* the range-based mapping used when the regression denominator is below 1e-10
rangeFallback(validAverages, n, sumX) ==
    LET measuredRange == Sub(MaxMeasured(validAverages), MinMeasured(validAverages))
        slope == IF Less(Int2Num(0), measuredRange)
                 THEN Div(Int2Num(2), measuredRange)
                 ELSE Int2Num(1)
        intercept == Mul(Div(Neg(sumX), n), slope)
    IN  [slope |-> slope, intercept |-> intercept]

\* the regression with the intercept left at 0
regressionSlopeOnly(n, sumX, sumY, sumXY, denominator) ==
    [slope     |-> Div(Sub(Mul(n, sumXY), Mul(sumX, sumY)), denominator),
     intercept |-> Int2Num(0)]

\* the regression with the two terms of the slope's numerator exchanged
regressionReversed(n, sumX, sumY, sumXY, denominator) ==
    LET slope == Div(Sub(Mul(sumX, sumY), Mul(n, sumXY)), denominator)
    IN  [slope |-> slope, intercept |-> Div(Sub(sumY, Mul(slope, sumX)), n)]

regression(n, sumX, sumY, sumXY, denominator) ==
    LET slope == Div(Sub(Mul(n, sumXY), Mul(sumX, sumY)), denominator)
        intercept == Div(Sub(sumY, Mul(slope, sumX)), n)
    IN  IF ~isFinite(slope) \/ ~isFinite(intercept)
        THEN identityTransform
        ELSE [slope |-> slope, intercept |-> intercept]

regressionDenominator(validAverages) ==
    LET n == Int2Num(Len(validAverages))
        sumX == SumSeq(measuredOf(validAverages))
        sumX2 == SumSeq([i \in 1..Len(validAverages) |->
                           Mul(validAverages[i].measured, validAverages[i].measured)])
    IN  Sub(Mul(n, sumX2), Mul(sumX, sumX))

validAveragesOf(pts) ==
    SelectSeq([i \in 1..Len(pts) |-> average(pts[i])],
              LAMBDA a : ~isNaN(a.measured) /\ isFinite(a.measured))

calculateLinearTransform(pts) ==
    IF Len(pts) # 3 THEN identityTransform
    ELSE LET validAverages == validAveragesOf(pts)
         IN  IF Len(validAverages) < 2 THEN identityTransform
             ELSE LET n == Int2Num(Len(validAverages))
                      sumX == SumSeq(measuredOf(validAverages))
                      sumY == SumSeq(targetOf(validAverages))
                      sumXY == SumSeq([i \in 1..Len(validAverages) |->
                                  Mul(validAverages[i].measured, validAverages[i].target)])
                      denominator == regressionDenominator(validAverages)
                 IN  IF BelowEpsilon(denominator)
                     THEN rangeFallback(validAverages, n, sumX)
                     ELSE regression(n, sumX, sumY, sumXY, denominator)

\* the branch calculateLinearTransform returns from
linearTransformBranch(pts) ==
    IF Len(pts) # 3 THEN "identity"
    ELSE IF Len(validAveragesOf(pts)) < 2 THEN "identity"
    ELSE IF BelowEpsilon(regressionDenominator(validAveragesOf(pts))) THEN "fallback"
    ELSE "regression"

\* the positions of completeCalibration's two validations
missingPositions(pts) ==
    {pos \in PositionSet : \A i \in 1..Len(pts) : pts[i].position # pos}

insufficientPoints(pts) ==
    {i \in 1..Len(pts) : Len(pts[i].gazeValues) < MIN_POINT_FRAMES}

\* the validation without its check of the sample counts
completionOutcomeNoSampleCheck(pts) ==
    IF missingPositions(pts) # {} THEN "incomplete" ELSE "save"

\* what completeCalibration does with the points of its render:
\* a failure alert, or the record it hands to AsyncStorage.setItem
completionOutcome(pts) ==
    IF missingPositions(pts) # {} THEN "incomplete"
    ELSE IF insufficientPoints(pts) # {} THEN "insufficient"
    ELSE "save"

finalCalibrationData(pts, timestamp) ==
    [isComplete      |-> TRUE,
     linearTransform |-> <<calculateLinearTransform(pts)>>,
     timestamp       |-> timestamp]

\* JSON.stringify writes a finite number as its digits and NaN or an
\* Infinity as the text null
jsonNumberText(x) ==
    IF isFinite(x) THEN [txt |-> "number", n |-> x.n, d |-> x.d]
    ELSE [txt |-> "null", n |-> 0, d |-> 0]

\* an undefined linearTransform is left out of the text (the empty sequence)
JSONstringify(data) ==
    [isComplete      |-> data.isComplete,
     timestamp       |-> data.timestamp,
     linearTransform |->
        [i \in 1..Len(data.linearTransform) |->
            [slope     |-> jsonNumberText(data.linearTransform[i].slope),
             intercept |-> jsonNumberText(data.linearTransform[i].intercept)]]]

\* the JavaScript value null where a number is expected: [n |-> 0, d |-> -1]
JsNullNumber == [n |-> 0, d |-> -1]

\* JSON.parse reads the text null as the value null
jsonNumberValue(t) == IF t.txt = "null" THEN JsNullNumber ELSE [n |-> t.n, d |-> t.d]

JSONparse(text) ==
    [isComplete      |-> text.isComplete,
     timestamp       |-> text.timestamp,
     linearTransform |->
        [i \in 1..Len(text.linearTransform) |->
            [slope     |-> jsonNumberValue(text.linearTransform[i].slope),
             intercept |-> jsonNumberValue(text.linearTransform[i].intercept)]]]

\* ToNumber of a parsed value: null counts as 0 in arithmetic
toNumber(v) == IF v = JsNullNumber THEN Int2Num(0) ELSE v

\* ------------------------------------------------------------------------
\* CalibrationService: pure functions of the service's fields.
\* An optional value is a sequence: <<>> for null, <<v>> for v.
\* ------------------------------------------------------------------------
isCalibrated(loaded, data) ==
    /\ loaded
    /\ data # <<>>
    /\ data[1].isComplete = TRUE
    /\ data[1].linearTransform # <<>>

clamp(x) == NumMax(Int2Num(-1), NumMin(Int2Num(1), x))

\* the correction without the intercept
applyCalibratedGazeNoIntercept(loaded, data, rawGazeX) ==
    IF ~isCalibrated(loaded, data) \/ data[1].linearTransform = <<>> THEN rawGazeX
    ELSE clamp(Mul(toNumber(data[1].linearTransform[1].slope), rawGazeX))

\* the correction with the clamp applied to uncorrected values too
applyCalibratedGazeClamped(loaded, data, rawGazeX) ==
    IF ~isCalibrated(loaded, data) \/ data[1].linearTransform = <<>> THEN clamp(rawGazeX)
    ELSE clamp(Add(Mul(toNumber(data[1].linearTransform[1].slope), rawGazeX),
                   toNumber(data[1].linearTransform[1].intercept)))

\* the correction without the clamp
applyCalibratedGazeUnclamped(loaded, data, rawGazeX) ==
    IF ~isCalibrated(loaded, data) \/ data[1].linearTransform = <<>> THEN rawGazeX
    ELSE Add(Mul(toNumber(data[1].linearTransform[1].slope), rawGazeX),
             toNumber(data[1].linearTransform[1].intercept))

applyCalibratedGaze(loaded, data, rawGazeX) ==
    IF ~isCalibrated(loaded, data) \/ data[1].linearTransform = <<>> THEN rawGazeX
    ELSE LET slope == toNumber(data[1].linearTransform[1].slope)
             intercept == toNumber(data[1].linearTransform[1].intercept)
         IN  clamp(Add(Mul(slope, rawGazeX), intercept))

\* ------------------------------------------------------------------------
\* TensorFlowProcessor: constants and pure functions.
\* A Kotlin Float is a number as above; products with the literals 0.3f,
\* 0.35f, ... are exact.  Indices of detections count from 1, and 0 stands
\* for the code's -1 (no detection).
\* ------------------------------------------------------------------------
INPUT_SIZE == 128

\* NUM_DETECTIONS is 896 in the code; the tensors of the model have
\* NumDetections rows
NumDetections == 3

confidenceThreshold == Rat(1, 100)

EyeSpanEpsilon == Rat(1, 1000)

Int_MAX_VALUE == 2147483647

IntMax(a, b) == IF a < b THEN b ELSE a

IntMin(a, b) == IF b < a THEN b ELSE a

\* Float.toInt(): rounds towards zero, NaN gives 0, an infinity saturates
toInt(x) ==
    IF isNaN(x) THEN 0
    ELSE IF ~isFinite(x) THEN x.n * Int_MAX_VALUE
    ELSE Sign(x.n) * (Abs(x.n) \div x.d)

\* the logits the model puts out, and 1.0f / (1.0f + exp(-logit)) in Float
\* arithmetic to four places: increasing in the logit, and exactly 1 from
\* logits of about 17 on, where 1.0f + exp(-logit) rounds to 1.0f
Logits == {-6, -5, -4, 0, 20, 30}

sigmoid(logit) ==
    CASE logit = -6 -> Rat(25, 10000)
      [] logit = -5 -> Rat(67, 10000)
      [] logit = -4 -> Rat(180, 10000)
      [] logit = 0  -> Rat(1, 2)
      [] logit = 20 -> Int2Num(1)
      [] logit = 30 -> Int2Num(1)

NoDetection == [index |-> 0, confidence |-> Int2Num(0)]

\* the scan for the best detection, from index i on
RECURSIVE scanDetections(_, _, _)
scanDetections(classificators, i, best) ==
    IF i > Len(classificators) THEN best
    ELSE LET confidence == sigmoid(classificators[i])
         IN  scanDetections(classificators, i + 1,
                IF Less(best.confidence, confidence)
                THEN [confidence |-> confidence,
                      index |-> IF Less(confidenceThreshold, confidence)
                                THEN i ELSE best.index]
                ELSE best)

\* the scan with the index taken at every new best confidence
bestDetectionNoThreshold(classificators) ==
    LET RECURSIVE scan(_, _)
        scan(i, best) ==
            IF i > Len(classificators) THEN best
            ELSE LET confidence == sigmoid(classificators[i])
                 IN  scan(i + 1, IF Less(best.confidence, confidence)
                                 THEN [confidence |-> confidence, index |-> i]
                                 ELSE best)
    IN  scan(1, NoDetection)

\* the scan that keeps the last of the detections with the best confidence
bestDetectionLast(classificators) ==
    LET RECURSIVE scan(_, _)
        scan(i, best) ==
            IF i > Len(classificators) THEN best
            ELSE LET confidence == sigmoid(classificators[i])
                 IN  scan(i + 1, IF ~Less(confidence, best.confidence)
                                 THEN [confidence |-> confidence,
                                       index |-> IF Less(confidenceThreshold, confidence)
                                                 THEN i ELSE best.index]
                                 ELSE best)
    IN  scan(1, NoDetection)

bestDetection(classificators) == scanDetections(classificators, 1, NoDetection)

\* the face box of a regressor row, scaled from the model's input to the image
faceBox(coords, imageWidth, imageHeight) ==
    LET scaleX == Div(Int2Num(imageWidth), Int2Num(INPUT_SIZE))
        scaleY == Div(Int2Num(imageHeight), Int2Num(INPUT_SIZE))
        faceX == Mul(coords[1], scaleX)
        faceY == Mul(coords[2], scaleY)
        faceWidth == Mul(coords[3], scaleX)
        faceHeight == Mul(coords[4], scaleY)
    IN  [faceLeft   |-> Sub(faceX, Div(faceWidth, Int2Num(2))),
         faceTop    |-> Sub(faceY, Div(faceHeight, Int2Num(2))),
         faceWidth  |-> faceWidth,
         faceHeight |-> faceHeight]

Point(x, y) == [x |-> x, y |-> y]

\* timestamp and highResTimestamp are left out of the landmarks
createNoFaceResult ==
    [leftEye    |-> [iris |-> Point(Int2Num(0), Int2Num(0)),
                     innerCorner |-> Point(Int2Num(0), Int2Num(0)),
                     outerCorner |-> Point(Int2Num(0), Int2Num(0))],
     rightEye   |-> [iris |-> Point(Int2Num(0), Int2Num(0)),
                     innerCorner |-> Point(Int2Num(0), Int2Num(0)),
                     outerCorner |-> Point(Int2Num(0), Int2Num(0))],
     confidence |-> Int2Num(0),
     gazeData   |-> <<>>]

DarkPixel == [red |-> 20, green |-> 20, blue |-> 30]

GreyPixel == [red |-> 120, green |-> 120, blue |-> 130]

WhitePixel == [red |-> 255, green |-> 255, blue |-> 255]

\* a bitmap is its size and either its pixels, row by row, or the column of
\* the pupil (-1: none); for the latter getPixel gives a dark pixel in the
\* pupil's column, grey ones beside it and white elsewhere
getPixel(bitmap, x, y) ==
    IF "pixels" \in DOMAIN bitmap THEN bitmap.pixels[y + 1][x + 1]
    ELSE IF x = bitmap.pupilX THEN [red |-> 20, green |-> 20, blue |-> 30]
    ELSE IF bitmap.pupilX >= 0 /\ Abs(x - bitmap.pupilX) = 1
         THEN [red |-> 120, green |-> 120, blue |-> 130]
    ELSE [red |-> 255, green |-> 255, blue |-> 255]

\* the intensity red * 0.3f + green * 0.3f + blue * 0.4f, in tenths
intensityOf(pixel) == 3 * pixel.red + 3 * pixel.green + 4 * pixel.blue

\* the scan without the check of its lines against the region's rows
scanOrderAllLines(left, top, right, bottom) ==
    LET scanLines == 3
        lineSpacing == IntMax(1, (bottom - top) \div (scanLines + 1))
        lines == [lineIdx \in 1..scanLines |-> top + lineSpacing * lineIdx]
        perLine == right - left
    IN  [k \in 1..(Len(lines) * perLine) |->
            [x |-> left + ((k - 1) % perLine),
             y |-> lines[((k - 1) \div perLine) + 1]]]

\* the pixels the scan reads, in the order it reads them
scanOrder(left, top, right, bottom) ==
    LET scanLines == 3
        lineSpacing == IntMax(1, (bottom - top) \div (scanLines + 1))
        lines == SelectSeq([lineIdx \in 1..scanLines |-> top + lineSpacing * lineIdx],
                           LAMBDA scanY : scanY >= top /\ scanY < bottom)
        perLine == right - left
    IN  [k \in 1..(Len(lines) * perLine) |->
            [x |-> left + ((k - 1) % perLine),
             y |-> lines[((k - 1) \div perLine) + 1]]]

\* the scan with intensity <= darkestIntensity: the last darkest pixel is kept
darkestOfLast(bitmap, coords, k, initial) ==
    LET intensity(i) == intensityOf(getPixel(bitmap, coords[i].x, coords[i].y))
        updates == {i \in 1..k :
                       /\ intensity(i) <= initial.intensity
                       /\ \A j \in 1..(i - 1) : intensity(i) <= intensity(j)}
    IN  IF updates = {} THEN initial
        ELSE LET last == CHOOSE i \in updates : \A j \in updates : j <= i
             IN  [x |-> Int2Num(coords[last].x), intensity |-> intensity(last)]

\* the darkest pixel after the first k reads of the scan, initial before the
\* first.  A read replaces the darkest pixel when its intensity is below
\* darkestIntensity, that is below the initial value and below every earlier
\* read; the pixel held after the scan is that of the last such read
darkestOf(bitmap, coords, k, initial) ==
    LET intensity(i) == intensityOf(getPixel(bitmap, coords[i].x, coords[i].y))
        updates == {i \in 1..k :
                       /\ intensity(i) < initial.intensity
                       /\ \A j \in 1..(i - 1) : intensity(i) < intensity(j)}
    IN  IF updates = {} THEN initial
        ELSE LET last == CHOOSE i \in updates : \A j \in updates : j <= i
             IN  [x |-> Int2Num(coords[last].x), intensity |-> intensity(last)]

\* the bounds of a region that reaches eyeRegionSize to each side of the center
regionBoundsOfRadius(bitmap, eyeCenterX, eyeCenterY, eyeRegionSize) ==
    [left   |-> IntMax(0, toInt(Sub(eyeCenterX, eyeRegionSize))),
     top    |-> IntMax(0, toInt(Sub(eyeCenterY, eyeRegionSize))),
     right  |-> IntMin(bitmap.width, toInt(Add(eyeCenterX, eyeRegionSize))),
     bottom |-> IntMin(bitmap.height, toInt(Add(eyeCenterY, eyeRegionSize)))]

\* the bounds of the eye region in the bitmap
regionBounds(bitmap, eyeCenterX, eyeCenterY, eyeRegionSize) ==
    LET regionHalfSize == Div(eyeRegionSize, Int2Num(2))
    IN  [left   |-> IntMax(0, toInt(Sub(eyeCenterX, regionHalfSize))),
         top    |-> IntMax(0, toInt(Sub(eyeCenterY, regionHalfSize))),
         right  |-> IntMin(bitmap.width, toInt(Add(eyeCenterX, regionHalfSize))),
         bottom |-> IntMin(bitmap.height, toInt(Add(eyeCenterY, regionHalfSize)))]

\* the scan without the smoothing: the position of the darkest pixel
scanEyeRegionUnsmoothed(bitmap, b, eyeCenterX, eyeRegionSize) ==
    LET coords == scanOrder(b.left, b.top, b.right, b.bottom)
        darkest == darkestOf(bitmap, coords, Len(coords),
                             [x |-> eyeCenterX, intensity |-> 10 * 255])
    IN  [x |-> darkest.x, reads |-> Len(coords), darkestX |-> darkest.x]

\* the smoothed position of the darkest pixel of the region's scan lines
scanEyeRegion(bitmap, b, eyeCenterX, eyeRegionSize) ==
    LET coords == scanOrder(b.left, b.top, b.right, b.bottom)
        darkest == darkestOf(bitmap, coords, Len(coords),
                             [x |-> eyeCenterX, intensity |-> 10 * 255])
        maxMovement == Mul(eyeRegionSize, Rat(1, 2))
        movement == Sub(darkest.x, eyeCenterX)
    IN  [x     |-> Add(eyeCenterX, NumMax(Neg(maxMovement), NumMin(maxMovement, movement))),
         reads |-> Len(coords),
         darkestX |-> darkest.x]

\* the iris detection without its check of the region's bounds
detectIrisInEyeRegionUnchecked(bitmap, eyeCenterX, eyeCenterY, eyeRegionSize) ==
    LET b == regionBounds(bitmap, eyeCenterX, eyeCenterY, eyeRegionSize)
    IN  IF b.right <= b.left \/ b.bottom <= b.top
        THEN [x |-> Add(eyeCenterX, Mul(eyeRegionSize, Rat(1, 2))), reads |-> 0]
        ELSE scanEyeRegion(bitmap, b, eyeCenterX, eyeRegionSize)

\* detectIrisInEyeRegion: the value it returns and the number of getPixel calls
detectIrisInEyeRegion(bitmap, eyeCenterX, eyeCenterY, eyeRegionSize) ==
    LET b == regionBounds(bitmap, eyeCenterX, eyeCenterY, eyeRegionSize)
    IN  IF b.right <= b.left \/ b.bottom <= b.top
        THEN [x |-> eyeCenterX, reads |-> 0]
        ELSE scanEyeRegion(bitmap, b, eyeCenterX, eyeRegionSize)

\* the normalization without the clamp
calculateNormalizedGazeUnclamped(irisX, leftEyeX, rightEyeX, confidence) ==
    LET actualLeftX == NumMin(leftEyeX, rightEyeX)
        actualRightX == NumMax(leftEyeX, rightEyeX)
        eyeSpan == Sub(actualRightX, actualLeftX)
    IN  [normalizedGazeX |->
            IF Less(EyeSpanEpsilon, eyeSpan)
            THEN Sub(Mul(Int2Num(2), Div(Sub(irisX, actualLeftX), eyeSpan)), Int2Num(1))
            ELSE Int2Num(0),
         rawGazeX   |-> irisX,
         leftEyeX   |-> actualLeftX,
         rightEyeX  |-> actualRightX,
         confidence |-> confidence]

calculateNormalizedGaze(irisX, leftEyeX, rightEyeX, confidence) ==
    LET actualLeftX == NumMin(leftEyeX, rightEyeX)
        actualRightX == NumMax(leftEyeX, rightEyeX)
        eyeSpan == Sub(actualRightX, actualLeftX)
        rawNormalized ==
            Sub(Mul(Int2Num(2), Div(Sub(irisX, actualLeftX), eyeSpan)), Int2Num(1))
    IN  [normalizedGazeX |->
            IF Less(EyeSpanEpsilon, eyeSpan)
            THEN NumMax(Int2Num(-1), NumMin(Int2Num(1), rawNormalized))
            ELSE Int2Num(0),
         rawGazeX   |-> irisX,
         leftEyeX   |-> actualLeftX,
         rightEyeX  |-> actualRightX,
         confidence |-> confidence]

\* the landmarks of the detection best, estimated from its face box
landmarksOf(box, best, bitmap) ==
    LET eyeY == Add(box.faceTop, Mul(box.faceHeight, Rat(35, 100)))
        leftEyeX == Add(box.faceLeft, Mul(box.faceWidth, Rat(3, 10)))
        rightEyeX == Add(box.faceLeft, Mul(box.faceWidth, Rat(7, 10)))
        eyeSpacing == Mul(box.faceWidth, Rat(8, 100))
        eyeRegionSize == Mul(box.faceWidth, Rat(15, 100))
        leftIrisX == detectIrisInEyeRegion(bitmap, leftEyeX, eyeY, eyeRegionSize).x
        rightIrisX == detectIrisInEyeRegion(bitmap, rightEyeX, eyeY, eyeRegionSize).x
        averageIrisX == Div(Add(leftIrisX, rightIrisX), Int2Num(2))
        leftEyeOuterX == Sub(leftEyeX, eyeSpacing)
        rightEyeOuterX == Add(rightEyeX, eyeSpacing)
    IN  [leftEye    |-> [iris |-> Point(leftIrisX, eyeY),
                         innerCorner |-> Point(Add(leftEyeX, eyeSpacing), eyeY),
                         outerCorner |-> Point(leftEyeOuterX, eyeY)],
         rightEye   |-> [iris |-> Point(rightIrisX, eyeY),
                         innerCorner |-> Point(Sub(rightEyeX, eyeSpacing), eyeY),
                         outerCorner |-> Point(rightEyeOuterX, eyeY)],
         confidence |-> best.confidence,
         gazeData   |-> <<calculateNormalizedGaze(averageIrisX, leftEyeOuterX,
                                                  rightEyeOuterX, best.confidence)>>]

\* processBlazeFaceDetections: the detection it selects (0: none), the face
\* box it decodes (<<>>: none) and the landmarks it returns
processBlazeFaceDetections(regressors, classificators, bitmap, imageWidth, imageHeight) ==
    LET best == bestDetection(classificators)
    IN  IF best.index = 0
        THEN [index |-> 0, box |-> <<>>, landmarks |-> createNoFaceResult]
        ELSE LET box == faceBox(regressors[best.index], imageWidth, imageHeight)
             IN  [index |-> best.index, box |-> <<box>>,
                  landmarks |-> landmarksOf(box, best, bitmap)]

\* processFrame without its catch: what the body of the try block does
processFrameUncaught(c) ==
    IF ~c.isModelLoaded THEN [thrown |-> FALSE, value |-> <<>>]
    ELSE IF ~c.bitmapConverted THEN [thrown |-> FALSE, value |-> <<>>]
    ELSE IF ~c.inferenceRuns THEN [thrown |-> TRUE, value |-> <<>>]
    ELSE [thrown |-> FALSE,
          value  |-> <<processBlazeFaceDetections(c.regressors, c.classificators,
                          c.bitmap, c.imageWidth, c.imageHeight).landmarks>>]

\* TensorFlowProcessor.processFrame: whether it throws, and the landmarks it
\* returns (<<>> for null)
processFrame(c) ==
    IF processFrameUncaught(c).thrown
    THEN [thrown |-> FALSE, value |-> <<>>]
    ELSE processFrameUncaught(c)

\* the frame event CameraModule.processFrame sends for the landmarks
frameData(c, eyeLandmarks) ==
    [width |-> c.imageWidth, height |-> c.imageHeight, eyeLandmarks |-> eyeLandmarks]

\* CameraModule.processFrame: the event it sends, or the exception it catches
cameraProcessFrame(c) ==
    IF processFrame(c).thrown THEN [caught |-> TRUE, event |-> <<>>]
    ELSE [caught |-> FALSE, event |-> <<frameData(c, processFrame(c).value)>>]

\* ------------------------------------------------------------------------
\* State
\* ------------------------------------------------------------------------
VARIABLES
    currentTab,     \* App: 'tracker' | 'settings' | 'calibration'
    currentStep,    \* CalibrationScreen state (initial values while unmounted)
    frameCount,
    isCollecting,
    isCompleting,
    points,         \* calibrationData.points
    rendered,       \* the dependency values of the last committed render
    listener,       \* NativeCameraModule.onFrameCallback: whose closure it is
    alert,          \* the Alert that is up, "none" if there is none
    storage,        \* AsyncStorage item 'gazeCalibration': <<>> or <<text>>
    now,            \* number of Date.now() readings taken for a saved record
    svcData,        \* CalibrationService.calibrationData: <<>> or <<record>>
    isLoaded,       \* CalibrationService.isLoaded
    calibrationExists, \* Settings state (false while Settings is unmounted)
    pending,        \* awaited storage operations, in the order they were issued
    lagged,         \* history: frames of this run that count towards MaxLag
    runs,           \* history: calibration runs begun, by mounting or by Reset
    runWrites,      \* history: setItem calls that succeeded since mount or reset
    failed,         \* history: a validation of this run has failed
    written,        \* history: every text ever stored under 'gazeCalibration'
    applied,        \* history: the last applyCalibratedGaze call
    call,           \* the function call being evaluated, with its arguments
    result,         \* what the call returned, NoResult before it returns
    queued,         \* ImageReader: images available and not yet acquired
    acquired,       \* ImageReader: the image the listener holds, <<>> or <<id>>
    callbacks,      \* onImageAvailable calls posted to the background handler
    produced,       \* number of images the camera has produced
    closed,         \* history: images that were closed
    dropped,        \* history: images the reader had no room for
    processed,      \* history: the images processFrame was called on, with the outcome
    currentSession, \* SessionManager.currentSession: <<>> or <<metadata>>
    sessionData,    \* SessionManager.sessionData: the data points of the session
    frameCounter,
    uploadQueue,    \* SessionManager.uploadQueue: the data points not yet uploaded
    cloudSyncEnabled,
    apiSessionCreated,
    uploadInterval, \* the periodic upload timer is set
    isOnline,       \* NetworkService.isOnline
    starting,       \* the startSession call in progress: where it awaits
    stopping,       \* the stopSession call in progress: where it awaits
    uploading,      \* the batch of a periodic uploadDataBatch awaiting its upload
    sessions,       \* number of sessions started; the next session_id
    sessionStore    \* AsyncStorage items session_meta_<id> and session_data_<id>

vars == <<currentTab, currentStep, frameCount, isCollecting, isCompleting, points,
          rendered, listener, alert, storage, now, svcData, isLoaded,
          calibrationExists, pending, lagged, runs, runWrites, failed, written,
          applied, call, result, queued, acquired, callbacks, produced, closed,
          dropped, processed, currentSession, sessionData, frameCounter, uploadQueue,
          cloudSyncEnabled, apiSessionCreated, uploadInterval, isOnline, starting,
          stopping, uploading, sessions, sessionStore>>

\* the state of SessionManager, NetworkService and the session items in storage
sessionVars == <<currentSession, sessionData, frameCounter, uploadQueue,
                 cloudSyncEnabled, apiSessionCreated, uploadInterval, isOnline,
                 starting, stopping, uploading, sessions, sessionStore>>

\* the state of the React Native app
appVars == <<currentTab, currentStep, frameCount, isCollecting, isCompleting, points,
             rendered, listener, alert, storage, now, svcData, isLoaded,
             calibrationExists, pending, lagged, runs, runWrites, failed, written,
             applied, currentSession, sessionData, frameCounter, uploadQueue,
             cloudSyncEnabled, apiSessionCreated, uploadInterval, isOnline, starting,
             stopping, uploading, sessions, sessionStore>>

\* the state of the native camera module
cameraVars == <<queued, acquired, callbacks, produced, closed, dropped, processed>>

nativeVars == <<call, result, queued, acquired, callbacks, produced, closed,
                dropped, processed>>

screenVars == <<currentStep, frameCount, isCollecting, isCompleting, points, rendered>>

deps == [currentStep  |-> currentStep,  frameCount   |-> frameCount,
         isCollecting |-> isCollecting, isCompleting |-> isCompleting]

\* the dependencies kept between renders.  frameCount is left out: it is read
\* only by the frame-count effect, whose condition cannot hold in two renders
\* with equal dependencies
depsRendered == [currentStep  |-> currentStep, isCollecting |-> isCollecting,
                 isCompleting |-> isCompleting]

mounted == currentTab = "calibration"

RECURSIVE totalSamples(_)
totalSamples(pts) ==
    IF pts = <<>> THEN 0 ELSE Len(Head(pts).gazeValues) + totalSamples(Tail(pts))

counted(count) == IF count < FRAMES_PER_POSITION THEN count ELSE FRAMES_PER_POSITION

\* the samples held beyond FRAMES_PER_POSITION for each finished position and
\* the frames counted so far by the collection that is running
unaccounted(pts, step, count, collecting, completing) ==
    totalSamples(pts)
    - FRAMES_PER_POSITION * (indexOf(step) - 1)
    - (IF completing THEN FRAMES_PER_POSITION ELSE 0)
    - (IF collecting THEN counted(count) ELSE 0)

AppListener == [kind |-> "app", step |-> "none"]

\* a calibration callback whose screen has been unmounted
DeadListener == [kind |-> "dead", step |-> "none"]

\* the frames the camera emits: an accepted frame, a frame on the confidence
\* boundary, a frame without gaze data, and the no-face sentinel
GoodGaze == Rat(1, 2)

LowGaze == Rat(-1, 4)

Frames ==
    { [confidence |-> 5, gazeData |-> <<GoodGaze>>],
      [confidence |-> 3, gazeData |-> <<LowGaze>>],
      [confidence |-> 5, gazeData |-> <<>>],
      [confidence |-> 0, gazeData |-> <<>>] }

RawValues == {Rat(-3, 2), Int2Num(-1), Int2Num(0), Rat(1, 2), Int2Num(2)}

\* a record left in storage by an earlier launch of the app
PriorText ==
    JSONstringify([isComplete |-> TRUE, timestamp |-> 0,
                   linearTransform |-> <<[slope |-> Int2Num(2), intercept |-> Rat(1, 4)]>>])

NoApply == [raw |-> Int2Num(0), out |-> Int2Num(0), loaded |-> FALSE, data |-> <<>>,
            called |-> FALSE]

\* a point of count equal samples
pointOf(step, gazeValue, count) ==
    [position    |-> step,
     gazeValues  |-> [i \in 1..count |-> gazeValue],
     targetValue |-> stepConfig[step].targetValue]

threePoints(l, c, r) ==
    <<pointOf("left", l, FRAMES_PER_POSITION), pointOf("center", c, FRAMES_PER_POSITION),
      pointOf("right", r, FRAMES_PER_POSITION)>>

\* the points a run can end with: a regular run, equal means, two equal means,
\* samples that are not numbers at two positions and at one, a position with
\* no point and a position with too few samples
InputPoints ==
    { threePoints(Rat(-17, 20), Rat(1, 100), Rat(9, 10)),
      threePoints(Rat(1, 2), Rat(1, 2), Rat(1, 2)),
      threePoints(Rat(1, 2), Rat(1, 2), Rat(9, 10)),
      threePoints(NaN, NaN, Rat(1, 2)),
      threePoints(NaN, Rat(1, 4), Rat(1, 2)),
      <<pointOf("left", Rat(-1, 2), 2 * FRAMES_PER_POSITION),
        pointOf("right", Rat(1, 2), FRAMES_PER_POSITION)>>,
      <<pointOf("left", Rat(-1, 2), 2 * FRAMES_PER_POSITION - (MIN_POINT_FRAMES - 1)),
        pointOf("center", Int2Num(0), MIN_POINT_FRAMES - 1),
        pointOf("right", Rat(1, 2), FRAMES_PER_POSITION)>> }

NoCall == [fn |-> "none"]

NoResult == [returned |-> FALSE]

\* no function call is being evaluated
InitCall ==
    /\ call = NoCall
    /\ result = NoResult

\* the camera has not produced an image
InitCamera ==
    /\ queued = <<>>
    /\ acquired = <<>>
    /\ callbacks = 0
    /\ produced = 0
    /\ closed = {}
    /\ dropped = {}
    /\ processed = <<>>

NoTask == [pc |-> "idle", caller |-> "none"]

\* SessionManager and NetworkService as constructed; no session item is stored
InitSessionManager ==
    /\ currentSession = <<>>
    /\ sessionData = <<>>
    /\ frameCounter = 0
    /\ uploadQueue = <<>>
    /\ cloudSyncEnabled = TRUE
    /\ apiSessionCreated = FALSE
    /\ uploadInterval = FALSE
    /\ isOnline = TRUE
    /\ starting = NoTask
    /\ stopping = NoTask
    /\ uploading = <<>>
    /\ sessions = 0
    /\ sessionStore = <<>>

InitScreen ==
    /\ currentStep = "left"
    /\ frameCount = 0
    /\ isCollecting = FALSE
    /\ isCompleting = FALSE
    /\ points = <<>>
    /\ rendered = [currentStep |-> "left", isCollecting |-> FALSE,
                   isCompleting |-> FALSE]

InitHistory ==
    /\ now = 0
    /\ lagged = 0
    /\ runWrites = 0
    /\ failed = FALSE
    /\ written = {storage[i] : i \in 1..Len(storage)}
    /\ applied = NoApply

\* the app has started on the tracker tab with the camera on and App's frame
\* callback subscribed; storage holds the record of an earlier launch and the
\* loadCalibration of App's mount effect has settled
InitTracker ==
    /\ currentTab = "tracker"
    /\ InitScreen
    /\ listener = AppListener
    /\ alert = "none"
    /\ storage = <<PriorText>>
    /\ svcData = <<JSONparse(PriorText)>>
    /\ isLoaded = TRUE
    /\ calibrationExists = FALSE
    /\ pending = <<>>
    /\ runs = 0
    /\ InitHistory

InitApp ==
    /\ InitTracker
    /\ InitSessionManager

Init ==
    /\ InitApp
    /\ InitCall
    /\ InitCamera

\* the third collection of a run has counted its last frame and the render
\* that follows is due; the loadCalibration of App's mount effect is awaited
InitService ==
    /\ currentTab = "calibration"
    /\ currentStep = "right"
    /\ frameCount = FRAMES_PER_POSITION
    /\ isCollecting = TRUE
    /\ isCompleting = FALSE
    /\ points \in InputPoints
    /\ rendered = [currentStep |-> "right", isCollecting |-> TRUE,
                   isCompleting |-> FALSE]
    /\ listener = [kind |-> "cal", step |-> "right"]
    /\ alert = "none"
    /\ storage \in {<<>>, <<PriorText>>}
    /\ svcData = <<>>
    /\ isLoaded = FALSE
    /\ calibrationExists = FALSE
    /\ \E ok \in BOOLEAN :
         pending = <<[op |-> "getItem", ok |-> ok,
                      item |-> IF ok THEN storage ELSE <<>>, caller |-> "App"]>>
    /\ runs = 1
    /\ InitHistory
    /\ InitSessionManager
    /\ InitCall
    /\ InitCamera

\* ------------------------------------------------------------------------
\* CalibrationScreen: handlers
\* ------------------------------------------------------------------------
\* the Start button, shown while the last render had isCollecting false
startCollection ==
    /\ UNCHANGED <<nativeVars, sessionVars>>
    /\ mounted
    /\ alert = "none"
    /\ ~rendered.isCollecting
    /\ isCollecting' = TRUE
    /\ frameCount' = 0
    /\ UNCHANGED <<currentTab, currentStep, isCompleting, points, rendered, listener,
                   alert, storage, now, svcData, isLoaded, calibrationExists,
                   pending, lagged, runs, runWrites, failed, written, applied>>

\* the Stop button, shown while the last render had isCollecting true
stopCollection ==
    /\ UNCHANGED <<nativeVars, sessionVars>>
    /\ mounted
    /\ alert = "none"
    /\ rendered.isCollecting
    /\ isCollecting' = FALSE
    /\ unaccounted(points, currentStep, frameCount, FALSE, isCompleting) <= MaxExtra
    /\ UNCHANGED <<currentTab, currentStep, frameCount, isCompleting, points, rendered,
                   listener, alert, storage, now, svcData, isLoaded,
                   calibrationExists, pending, lagged, runs, runWrites, failed,
                   written, applied>>

\* the Reset button, confirmed
resetCalibration ==
    /\ UNCHANGED <<nativeVars, sessionVars>>
    /\ mounted
    /\ alert = "none"
    /\ runs < MaxRuns
    /\ currentStep' = "left"
    /\ frameCount' = 0
    /\ isCollecting' = FALSE
    /\ isCompleting' = FALSE
    /\ points' = <<>>
    /\ runs' = runs + 1
    /\ lagged' = 0
    /\ runWrites' = 0
    /\ failed' = FALSE
    /\ UNCHANGED <<currentTab, rendered, listener, alert, storage, now, svcData,
                   isLoaded, calibrationExists, pending, written, applied>>

\* the camera emits a frame; the subscribed callback is called.  The calibration
\* callback appends to the point of the step it was created for and counts
\* the frame; the state setters of an unmounted screen do nothing.
onCameraFrame(frame) ==
    /\ UNCHANGED <<nativeVars, sessionVars>>
    /\ listener.kind = "cal"
    /\ frameAccepted(frame)
    /\ points' = addGazeValue(points, listener.step, frame.gazeData[1])
    /\ frameCount' = frameCount + 1
    /\ lagged' = IF isCollecting /\ listener.step # currentStep
                  THEN lagged + 1 ELSE lagged
    /\ lagged' <= MaxLag
    /\ unaccounted(points', currentStep, frameCount', isCollecting, isCompleting)
          <= MaxExtra
    /\ UNCHANGED <<currentTab, currentStep, isCollecting, isCompleting, rendered,
                   listener, alert, storage, now, svcData, isLoaded,
                   calibrationExists, pending, runs, runWrites, failed, written,
                   applied>>

\* a frame that changes nothing in the calibration screen: rejected by the
\* filter, or delivered to another callback, or to none
onCameraFrameIgnored(frame) ==
    /\ listener.kind # "cal" \/ ~frameAccepted(frame)
    /\ UNCHANGED vars

\* subscribeToFrames returns nothing, so the effect's cleanup never
\* unsubscribes: the callback changes only when the effect subscribes again
frameEffectListener(d) ==
    IF d.isCollecting /\ <<d.isCollecting, d.currentStep>> #
                         <<rendered.isCollecting, rendered.currentStep>>
    THEN [kind |-> "cal", step |-> d.currentStep]
    ELSE listener

\* the frame-count condition without the frame count
targetReachedAnyCount(d) ==
    /\ d.isCollecting
    /\ ~d.isCompleting

\* the frame-count condition without the isCompleting guard
targetReachedWhileCompleting(d) ==
    /\ d.frameCount >= FRAMES_PER_POSITION
    /\ d.isCollecting

\* the condition of the frame-count effect, on the values of its render
targetReached(d) ==
    /\ d.frameCount >= FRAMES_PER_POSITION
    /\ d.isCollecting
    /\ ~d.isCompleting

\* Date.now() for the record being saved: later than every earlier reading,
\* until the model's clock stops at MaxClock
dateNow == IF now < MaxClock THEN now + 1 ELSE MaxClock

\* completeCalibration, called by moveToNextStep after the last position,
\* on the points of the render it was created in (its own isCompleting is
\* that render's, false).  A failed validation puts up an alert and returns;
\* otherwise the record is handed to AsyncStorage.setItem, which may fail,
\* and the function awaits it.
completeCalibration(pts) ==
    IF completionOutcome(pts) # "save"
    THEN /\ alert = "none"
         /\ alert' = completionOutcome(pts)
         /\ failed' = TRUE
         /\ UNCHANGED <<storage, now, pending, runWrites, written>>
    ELSE /\ Len(pending) < MaxPending
         /\ now' = dateNow
         /\ \E ok \in BOOLEAN :
              LET text == JSONstringify(finalCalibrationData(pts, dateNow))
              IN  /\ storage' = IF ok THEN <<text>> ELSE storage
                  /\ written' = IF ok THEN written \cup {text} ELSE written
                  /\ runWrites' = IF ok THEN runWrites + 1 ELSE runWrites
                  /\ pending' = Append(pending,
                                       [op |-> "setItem", ok |-> ok,
                                        item |-> <<>>, caller |-> "completeCalibration"])
         /\ UNCHANGED <<alert, failed>>

\* React commits a render of the current state and executes the two effects whose
\* dependencies changed: the frame subscription, then the frame-count check
\* with stopCollection, moveToNextStep and completeCalibration.
Render ==
    /\ UNCHANGED <<nativeVars, sessionVars>>
    /\ mounted
    /\ depsRendered # rendered \/ targetReached(deps)
    /\ rendered' = depsRendered
    /\ listener' = frameEffectListener(deps)
    /\ IF ~targetReached(deps)
       THEN UNCHANGED <<currentStep, frameCount, isCollecting, isCompleting, alert,
                        storage, now, pending, runWrites, failed, written>>
       ELSE /\ isCollecting' = FALSE
            /\ IF indexOf(currentStep) < 3
               THEN /\ currentStep' = Positions[indexOf(currentStep) + 1]
                    /\ frameCount' = 0
                    /\ UNCHANGED <<isCompleting, alert, storage, now, pending,
                                   runWrites, failed, written>>
               ELSE /\ isCompleting' = TRUE
                    /\ UNCHANGED <<currentStep, frameCount>>
                    /\ completeCalibration(points)
    /\ UNCHANGED <<currentTab, points, svcData, isLoaded, calibrationExists, lagged,
                   runs, applied>>

\* ------------------------------------------------------------------------
\* App: tabs, alerts and awaited storage operations
\* ------------------------------------------------------------------------
\* the calibration screen goes away: its state is dropped and the callback it
\* left subscribed belongs to no mounted component any more
unmountCalibration ==
    /\ currentStep' = "left"
    /\ frameCount' = 0
    /\ isCollecting' = FALSE
    /\ isCompleting' = FALSE
    /\ points' = <<>>
    /\ rendered' = [currentStep |-> "left", isCollecting |-> FALSE,
                    isCompleting |-> FALSE]
    /\ runWrites' = 0
    /\ failed' = FALSE
    /\ listener' = IF listener.kind = "cal" THEN DeadListener ELSE listener

leaveCalibration ==
    IF mounted THEN unmountCalibration
    ELSE UNCHANGED <<screenVars, runWrites, failed, listener>>

\* the Calibrate button of the tracker tab: CalibrationScreen mounts
handleCalibrate ==
    /\ UNCHANGED <<nativeVars, sessionVars>>
    /\ currentTab = "tracker"
    /\ alert = "none"
    /\ runs < MaxRuns
    /\ runs' = runs + 1
    /\ lagged' = 0
    /\ currentTab' = "calibration"
    /\ UNCHANGED <<screenVars, listener, alert, storage, now, svcData, isLoaded,
                   calibrationExists, pending, runWrites, failed, written, applied>>

\* Cancel on the calibration screen, or Tracker in the bottom navigation
handleTracker ==
    /\ UNCHANGED <<nativeVars, sessionVars>>
    /\ currentTab # "tracker"
    /\ alert = "none"
    /\ currentTab' = "tracker"
    /\ leaveCalibration
    /\ calibrationExists' = FALSE
    /\ UNCHANGED <<alert, storage, now, svcData, isLoaded, pending, lagged, runs,
                   written, applied>>

\* loadCalibration up to its await: AsyncStorage.getItem reads the item, or fails
getItemIssued(caller) ==
    /\ Len(pending) < MaxPending
    /\ \E ok \in BOOLEAN :
         pending' = Append(pending, [op |-> "getItem", ok |-> ok,
                                     item |-> IF ok THEN storage ELSE <<>>,
                                     caller |-> caller])

\* Settings in the bottom navigation: Settings mounts and its effect calls
\* checkCalibrationStatus, which awaits loadCalibration
handleSettings ==
    /\ UNCHANGED <<nativeVars, sessionVars>>
    /\ currentTab # "settings"
    /\ alert = "none"
    /\ currentTab' = "settings"
    /\ leaveCalibration
    /\ calibrationExists' = FALSE
    /\ getItemIssued("Settings")
    /\ UNCHANGED <<alert, storage, now, svcData, isLoaded, lagged, runs, written,
                   applied>>

\* Clear in the dialog of Settings' Clear Calibration button, which is shown
\* while calibrationExists: clearCalibration up to its await
settingsClearCalibration ==
    /\ UNCHANGED <<nativeVars, sessionVars>>
    /\ currentTab = "settings"
    /\ alert = "none"
    /\ calibrationExists
    /\ Len(pending) < MaxPending
    /\ \E ok \in BOOLEAN :
         /\ storage' = IF ok THEN <<>> ELSE storage
         /\ pending' = Append(pending, [op |-> "removeItem", ok |-> ok,
                                        item |-> <<>>, caller |-> "Settings"])
    /\ UNCHANGED <<currentTab, screenVars, listener, alert, now, svcData, isLoaded,
                   calibrationExists, lagged, runs, runWrites, failed, written,
                   applied>>

\* Clear All in the dialog of Settings' Clear All Data button: AsyncStorage.clear
clearAllData ==
    /\ UNCHANGED <<nativeVars, sessionVars>>
    /\ currentTab = "settings"
    /\ alert = "none"
    /\ Len(pending) < MaxPending
    /\ \E ok \in BOOLEAN :
         /\ storage' = IF ok THEN <<>> ELSE storage
         /\ pending' = Append(pending, [op |-> "clear", ok |-> ok,
                                        item |-> <<>>, caller |-> "Settings"])
    /\ UNCHANGED <<currentTab, screenVars, listener, alert, now, svcData, isLoaded,
                   calibrationExists, lagged, runs, runWrites, failed, written,
                   applied>>

\* the button of the alert that is up.  OK on 'Calibration Complete!' is
\* onCalibrationComplete: reloadCalibration up to the await in loadCalibration
alertOk ==
    /\ UNCHANGED <<nativeVars, sessionVars>>
    /\ alert # "none"
    /\ alert' = "none"
    /\ IF alert = "complete"
       THEN /\ isLoaded' = FALSE
            /\ svcData' = <<>>
            /\ getItemIssued("onCalibrationComplete")
       ELSE UNCHANGED <<isLoaded, svcData, pending>>
    /\ UNCHANGED <<currentTab, screenVars, listener, storage, now, calibrationExists,
                   lagged, runs, runWrites, failed, written, applied>>

\* this.calibrationData after loadCalibration has read the item
loadedData(p) ==
    IF p.ok /\ p.item # <<>> THEN <<JSONparse(p.item[1])>> ELSE svcData

loadedFlag(p) == IF p.ok /\ p.item # <<>> THEN TRUE ELSE isLoaded

\* the oldest awaited storage operation settles and its caller continues
continuation ==
    /\ UNCHANGED <<nativeVars, sessionVars>>
    /\ pending # <<>>
    /\ pending' = Tail(pending)
    /\ LET p == Head(pending)
       IN  CASE p.op = "setItem" ->
                  \* completeCalibration: the success alert, or the catch's
                  /\ alert = "none"
                  /\ alert' = IF p.ok THEN "complete" ELSE "error"
                  /\ UNCHANGED <<currentTab, screenVars, listener, svcData,
                                 isLoaded, calibrationExists, runWrites, failed>>
             [] p.op = "getItem" ->
                  \* loadCalibration, then its caller: App's mount effect,
                  \* Settings' checkCalibrationStatus, or onCalibrationComplete,
                  \* which goes back to the tracker tab
                  /\ svcData' = loadedData(p)
                  /\ isLoaded' = loadedFlag(p)
                  /\ IF p.caller = "onCalibrationComplete"
                     THEN /\ currentTab' = "tracker"
                          /\ leaveCalibration
                          /\ calibrationExists' = FALSE
                     ELSE /\ calibrationExists' =
                                IF p.caller = "Settings" /\ currentTab = "settings"
                                THEN isCalibrated(loadedFlag(p), loadedData(p))
                                ELSE calibrationExists
                          /\ UNCHANGED <<currentTab, screenVars, runWrites, failed,
                                         listener>>
                  /\ UNCHANGED alert
             [] p.op = "removeItem" ->
                  \* clearCalibration, then Settings' handler; a failed removal
                  \* is rethrown to the handler's catch
                  /\ alert = "none"
                  /\ svcData' = IF p.ok THEN <<>> ELSE svcData
                  /\ isLoaded' = IF p.ok THEN FALSE ELSE isLoaded
                  /\ calibrationExists' = IF p.ok THEN FALSE ELSE calibrationExists
                  /\ alert' = IF p.ok THEN "cleared" ELSE "clearFailed"
                  /\ UNCHANGED <<currentTab, screenVars, listener, runWrites, failed>>
             [] p.op = "clear" ->
                  \* Settings' clearAllData after AsyncStorage.clear
                  /\ alert = "none"
                  /\ calibrationExists' = IF p.ok THEN FALSE ELSE calibrationExists
                  /\ alert' = IF p.ok THEN "cleared" ELSE "clearFailed"
                  /\ UNCHANGED <<currentTab, screenVars, listener, svcData, isLoaded,
                                 runWrites, failed>>
    /\ UNCHANGED <<storage, now, lagged, runs, written, applied>>

\* a caller applies the calibration to a raw gaze value
ApplyGaze(rawGazeX) ==
    /\ UNCHANGED <<nativeVars, sessionVars>>
    /\ applied' = [raw    |-> rawGazeX,
                   out    |-> applyCalibratedGaze(isLoaded, svcData, rawGazeX),
                   loaded |-> isLoaded,
                   data   |-> svcData,
                   called |-> TRUE]
    /\ UNCHANGED <<currentTab, screenVars, listener, alert, storage, now, svcData,
                   isLoaded, calibrationExists, pending, lagged, runs, runWrites,
                   failed, written>>

\* ------------------------------------------------------------------------
\* The calibration run: CalibrationScreen driven by frames, buttons and renders
\* ------------------------------------------------------------------------
Next ==
    \/ handleCalibrate
    \/ handleTracker
    \/ startCollection
    \/ stopCollection
    \/ resetCalibration
    \/ \E frame \in Frames : onCameraFrame(frame)
    \/ \E frame \in Frames : onCameraFrameIgnored(frame)
    \/ Render
    \/ alertOk
    \/ continuation

Spec == Init /\ [][Next]_vars

\* ------------------------------------------------------------------------
\* The end of a run and the service: the last render of a run on given points,
\* the Settings screen, and applyCalibratedGaze calls between their steps
\* ------------------------------------------------------------------------
NextService ==
    \/ Render
    \/ alertOk
    \/ continuation
    \/ handleTracker
    \/ handleSettings
    \/ settingsClearCalibration
    \/ clearAllData
    \/ \E rawGazeX \in RawValues : ApplyGaze(rawGazeX)

SpecService == InitService /\ [][NextService]_vars

\* ------------------------------------------------------------------------
\* The end of a run and what the screen does after it when it is not reset
\* ------------------------------------------------------------------------
NextRetry ==
    \/ startCollection
    \/ stopCollection
    \/ \E frame \in Frames : onCameraFrame(frame)
    \/ \E frame \in Frames : onCameraFrameIgnored(frame)
    \/ Render
    \/ alertOk
    \/ continuation

SpecRetry == InitService /\ [][NextRetry]_vars

\* ------------------------------------------------------------------------
\* The calls of the frame-processing functions
\* ------------------------------------------------------------------------
RegressorRow(i) ==
    CASE i = 1 -> <<Int2Num(64), Int2Num(64), Int2Num(40), Int2Num(48)>>
      [] i = 2 -> <<Int2Num(30), Int2Num(40), Int2Num(20), Int2Num(24)>>
      [] i = 3 -> <<Int2Num(120), Int2Num(64), Int2Num(64), Int2Num(60)>>
      [] OTHER -> <<Int2Num(10 * i), Int2Num(10 * i), Int2Num(8), Int2Num(8)>>

Regressors == [i \in 1..NumDetections |-> RegressorRow(i)]

ImageSizes == {<<128, 128>>, <<160, 96>>}

\* the bitmap of an image: of the image's size, the pupil in the given column
bitmapOf(width, height, pupilX) == [width |-> width, height |-> height, pupilX |-> pupilX]

DecoderCalls ==
    {[fn |-> "processBlazeFaceDetections",
      regressors |-> Regressors, classificators |-> cl,
      bitmap |-> bitmapOf(sz[1], sz[2], (57 * sz[1]) \div INPUT_SIZE),
      imageWidth |-> sz[1], imageHeight |-> sz[2]] :
        cl \in [1..NumDetections -> Logits], sz \in ImageSizes}

\* a detection of a face 8 wide whose left eye region is centered on column
\* 56.5 and row 10.5, in images with the pupil in column 55 or 56 or without
NarrowFaceCalls ==
    {[fn |-> "processBlazeFaceDetections",
      regressors |-> [i \in 1..NumDetections |->
                         IF i = 1 THEN <<Rat(581, 10), Int2Num(12), Int2Num(8), Int2Num(10)>>
                         ELSE RegressorRow(i)],
      classificators |-> [i \in 1..NumDetections |-> IF i = 1 THEN 20 ELSE -6],
      bitmap |-> bitmapOf(INPUT_SIZE, INPUT_SIZE, px),
      imageWidth |-> INPUT_SIZE, imageHeight |-> INPUT_SIZE] : px \in {-1, 55, 56}}

EyeValues == {Int2Num(0), Rat(1, 1000), Int2Num(1), Rat(2001, 2000), Int2Num(3)}

IrisValues == {Int2Num(-3), Int2Num(0), Rat(1, 2), Int2Num(1), Int2Num(5)}

NormalizerCalls ==
    {[fn |-> "calculateNormalizedGaze", irisX |-> i, leftEyeX |-> l, rightEyeX |-> r,
      confidence |-> Rat(1, 2)] :
        i \in IrisValues, l \in EyeValues, r \in EyeValues}

IrisCalls ==
    {[fn |-> "detectIrisInEyeRegion", bitmap |-> bitmapOf(8, 6, px),
      eyeCenterX |-> cx, eyeCenterY |-> cy, eyeRegionSize |-> size] :
        px \in {-1, 2},
        cx \in {Int2Num(-5), Rat(1, 2), Int2Num(3), Rat(9, 2), Rat(15, 2), Int2Num(12),
                NaN},
        cy \in {Int2Num(-4), Int2Num(3), Int2Num(5), Int2Num(9)},
        size \in {Int2Num(-2), Int2Num(0), Int2Num(1), Int2Num(4)}}

Shades == {DarkPixel, GreyPixel, WhitePixel}

\* bitmaps of 2 x 4 pixels given pixel by pixel; the scan of the whole bitmap
\* reads the rows 1 to 3
GridBitmaps ==
    {[width |-> 2, height |-> 4, pupilX |-> -1,
      pixels |-> <<<<WhitePixel, WhitePixel>>, r1, r2, r3>>] :
        r1 \in [1..2 -> Shades], r2 \in [1..2 -> Shades], r3 \in [1..2 -> Shades]}

GridIrisCalls ==
    {[fn |-> "detectIrisInEyeRegion", bitmap |-> bitmap,
      eyeCenterX |-> Int2Num(1), eyeCenterY |-> Int2Num(2),
      eyeRegionSize |-> Int2Num(4)] : bitmap \in GridBitmaps}

ProcessFrameCalls ==
    {[fn |-> "processFrame", isModelLoaded |-> loaded, bitmapConverted |-> converted,
      inferenceRuns |-> runs_, regressors |-> Regressors, classificators |-> cl,
      bitmap |-> bitmapOf(128, 128, 57), imageWidth |-> 128, imageHeight |-> 128] :
        loaded \in BOOLEAN, converted \in BOOLEAN, runs_ \in BOOLEAN,
        cl \in [1..NumDetections -> {-6, 0}]}

callProcessBlazeFaceDetections ==
    /\ call.fn = "processBlazeFaceDetections"
    /\ ~result.returned
    /\ result' = [returned |-> TRUE,
                  value |-> processBlazeFaceDetections(call.regressors,
                               call.classificators, call.bitmap,
                               call.imageWidth, call.imageHeight)]
    /\ UNCHANGED <<call, appVars, cameraVars>>

callCalculateNormalizedGaze ==
    /\ call.fn = "calculateNormalizedGaze"
    /\ ~result.returned
    /\ result' = [returned |-> TRUE,
                  value |-> calculateNormalizedGaze(call.irisX, call.leftEyeX,
                               call.rightEyeX, call.confidence)]
    /\ UNCHANGED <<call, appVars, cameraVars>>

callDetectIrisInEyeRegion ==
    /\ call.fn = "detectIrisInEyeRegion"
    /\ ~result.returned
    /\ result' = [returned |-> TRUE,
                  value |-> detectIrisInEyeRegion(call.bitmap, call.eyeCenterX,
                               call.eyeCenterY, call.eyeRegionSize)]
    /\ UNCHANGED <<call, appVars, cameraVars>>

\* CameraModule.processFrame with TensorFlowProcessor.processFrame
callProcessFrame ==
    /\ call.fn = "processFrame"
    /\ ~result.returned
    /\ result' = [returned |-> TRUE,
                  value |-> [thrown |-> processFrame(call).thrown,
                             landmarks |-> processFrame(call).value,
                             caught |-> cameraProcessFrame(call).caught,
                             event |-> cameraProcessFrame(call).event]]
    /\ UNCHANGED <<call, appVars, cameraVars>>

InitFrame ==
    /\ InitApp
    /\ InitCamera
    /\ call \in DecoderCalls \cup NarrowFaceCalls \cup NormalizerCalls \cup IrisCalls
                \cup GridIrisCalls \cup ProcessFrameCalls
    /\ result = NoResult

NextFrame ==
    \/ callProcessBlazeFaceDetections
    \/ callCalculateNormalizedGaze
    \/ callDetectIrisInEyeRegion
    \/ callProcessFrame

SpecFrame == InitFrame /\ [][NextFrame]_vars

\* ------------------------------------------------------------------------
\* The calls of calculateLinearTransform, each followed by the calls of
\* applyCalibratedGaze on the stored and reloaded record
\* ------------------------------------------------------------------------
FitMeans == {Rat(-17, 20), Rat(-1, 2), Int2Num(0), Rat(1, 100), Rat(1, 2), Rat(9, 10),
             Int2Num(1)}

FitCalls ==
    {[fn |-> "calculateLinearTransform", points |-> threePoints(l, c, r),
      means |-> <<l, c, r>>] : l \in FitMeans, c \in FitMeans, r \in FitMeans}

callCalculateLinearTransform ==
    /\ call.fn = "calculateLinearTransform"
    /\ ~result.returned
    /\ result' = [returned |-> TRUE,
                  applied |-> <<>>,
                  branch |-> linearTransformBranch(call.points),
                  transform |-> calculateLinearTransform(call.points),
                  text |-> JSONstringify(finalCalibrationData(call.points, 1))]
    /\ UNCHANGED <<call, appVars, cameraVars>>

\* the record is loaded and applyCalibratedGaze is called on each mean
callApplyCalibratedGaze ==
    /\ call.fn = "calculateLinearTransform"
    /\ result.returned
    /\ result.applied = <<>>
    /\ result' = [result EXCEPT !.applied =
                    [i \in 1..3 |-> applyCalibratedGaze(TRUE, <<JSONparse(result.text)>>,
                                                        call.means[i])]]
    /\ UNCHANGED <<call, appVars, cameraVars>>

InitFit ==
    /\ InitApp
    /\ InitCamera
    /\ call \in FitCalls
    /\ result = NoResult

NextFit ==
    \/ callCalculateLinearTransform
    \/ callApplyCalibratedGaze

SpecFit == InitFit /\ [][NextFit]_vars

\* ------------------------------------------------------------------------
\* What SessionManager reports of one session: the calibration values and the
\* x of a data point in the payloads of the cloud sync and in
\* getSessionDataForAPI.  A call is a session with one frame: the calibration
\* record of the service and the raw gaze of the frame.
\* ------------------------------------------------------------------------
\* CalibrationService.getCalibrationInfo
getCalibrationInfo(loaded, data) ==
    [isCalibrated |-> isCalibrated(loaded, data),
     transform    |-> IF data = <<>> THEN <<>> ELSE data[1].linearTransform]

\* a || b of JavaScript for an optional number a: undefined, null, NaN and 0
\* are falsy
orElse(a, b) ==
    IF a = <<>> \/ a[1] = JsNullNumber \/ isNaN(a[1]) \/ (isFinite(a[1]) /\ a[1].n = 0)
    THEN b
    ELSE a[1]

\* the session metadata of startSession
sessionMetadata(info) ==
    [calibration_used |-> IF info.isCalibrated THEN info.transform ELSE <<>>]

\* the calibration of the RecordingData of initializeCloudSync and of
\* finalizeCloudSync
syncCalibration(info) ==
    IF info.isCalibrated
    THEN LET slope == info.transform[1].slope
             intercept == info.transform[1].intercept
         IN  [left   |-> Div(Sub(intercept, Int2Num(1)), slope),
              center |-> Div(intercept, slope),
              right  |-> Div(Add(intercept, Int2Num(1)), slope)]
    ELSE [left |-> Rat(-8, 10), center |-> Int2Num(0), right |-> Rat(9, 10)]

\* calibrationValues of getSessionDataForAPI
calibrationValues(metadata) ==
    IF metadata.calibration_used # <<>>
    THEN LET slope == metadata.calibration_used[1].slope
             intercept == metadata.calibration_used[1].intercept
         IN  [left   |-> Div(Sub(Int2Num(-1), intercept), slope),
              center |-> Div(Sub(Int2Num(0), intercept), slope),
              right  |-> Div(Sub(Int2Num(1), intercept), slope)]
    ELSE [left |-> Rat(-85, 100), center |-> Rat(1, 100), right |-> Rat(90, 100)]

\* the gaze fields of the data point of addDataPoint
gazeOfPoint(loaded, data, rawGaze) ==
    [gaze_raw        |-> rawGaze,
     gaze_calibrated |-> IF isCalibrated(loaded, data)
                         THEN <<applyCalibratedGaze(loaded, data, rawGaze)>>
                         ELSE <<>>]

\* the x of a point in uploadDataBatch, finalizeCloudSync and
\* getSessionDataForAPI
xOfPoint(point) == orElse(point.gaze_calibrated, point.gaze_raw)

\* a number written by JSON.stringify and read back by JSON.parse
storedNumber(x) == jsonNumberValue(jsonNumberText(x))

\* saveSessionData and getSessionData: the points through their JSON text
storedPoints(pts) ==
    [k \in 1..Len(pts) |->
        [gaze_raw        |-> storedNumber(pts[k].gaze_raw),
         gaze_calibrated |-> [i \in 1..Len(pts[k].gaze_calibrated) |->
                                 storedNumber(pts[k].gaze_calibrated[i])]]]

\* saveSessionMetadata and getSessionData: the metadata through its JSON text
storedMetadata(metadata) ==
    [calibration_used |->
        [i \in 1..Len(metadata.calibration_used) |->
            [slope     |-> storedNumber(metadata.calibration_used[i].slope),
             intercept |-> storedNumber(metadata.calibration_used[i].intercept)]]]

\* the mean raw gaze of the three calibration positions of a run, within the
\* range of the normalized gaze
ReportMeans ==
    {<<Rat(-1, 4), Int2Num(0), Rat(1, 4)>>, <<Int2Num(0), Rat(1, 8), Rat(1, 4)>>,
     <<Rat(-1, 4), Rat(-1, 8), Int2Num(0)>>, <<Rat(-1, 8), Int2Num(0), Rat(1, 4)>>,
     <<Rat(-1, 5), Rat(1, 100), Rat(1, 5)>>}

ReportCalibrations ==
    {<<>>} \cup {<<finalCalibrationData(threePoints(m[1], m[2], m[3]), 1)>> : m \in ReportMeans}

ReportGazes == {Rat(-1, 4), Rat(-1, 8), Int2Num(0), Rat(1, 100), Rat(1, 8), Rat(1, 4)}

ReportCalls ==
    {[fn |-> "session", data |-> d, rawGaze |-> g] :
        d \in ReportCalibrations, g \in ReportGazes}

\* startSession with initializeCloudSync: the metadata and the first payload
callStartSession ==
    /\ call.fn = "session"
    /\ ~result.returned
    /\ LET info == getCalibrationInfo(TRUE, call.data)
       IN  result' = [returned    |-> TRUE,
                      step        |-> "startSession",
                      metadata    |-> sessionMetadata(info),
                      initialData |-> [calibration |-> syncCalibration(info), data |-> <<>>],
                      points      |-> <<>>,
                      finalData   |-> <<>>,
                      api         |-> <<>>]
    /\ UNCHANGED <<call, appVars, cameraVars>>

\* addDataPoint on the frame of the call
callAddDataPoint ==
    /\ call.fn = "session"
    /\ result.returned
    /\ result.step = "startSession"
    /\ result' = [result EXCEPT
                    !.step = "addDataPoint",
                    !.points = <<gazeOfPoint(TRUE, call.data, call.rawGaze)>>]
    /\ UNCHANGED <<call, appVars, cameraVars>>

\* stopSession with finalizeCloudSync: the final payload
callStopSession ==
    /\ call.fn = "session"
    /\ result.returned
    /\ result.step = "addDataPoint"
    /\ LET info == getCalibrationInfo(TRUE, call.data)
       IN  result' = [result EXCEPT
                        !.step = "stopSession",
                        !.finalData =
                            <<[calibration |-> syncCalibration(info),
                               data |-> [k \in 1..Len(result.points) |->
                                           [x |-> xOfPoint(result.points[k])]]]>>]
    /\ UNCHANGED <<call, appVars, cameraVars>>

\* getSessionDataForAPI on the stored session
callGetSessionDataForAPI ==
    /\ call.fn = "session"
    /\ result.returned
    /\ result.step = "stopSession"
    /\ LET data == storedPoints(result.points)
       IN  result' = [result EXCEPT
                        !.step = "getSessionDataForAPI",
                        !.api =
                            <<[calibration |-> calibrationValues(storedMetadata(result.metadata)),
                               data |-> [k \in 1..Len(data) |->
                                           [x |-> xOfPoint(data[k])]]]>>]
    /\ UNCHANGED <<call, appVars, cameraVars>>

InitReport ==
    /\ InitApp
    /\ InitCamera
    /\ call \in ReportCalls
    /\ result = NoResult

NextReport ==
    \/ callStartSession
    \/ callAddDataPoint
    \/ callStopSession
    \/ callGetSessionDataForAPI

SpecReport == InitReport /\ [][NextReport]_vars

\* ------------------------------------------------------------------------
\* CameraModule: the ImageReader and its listener on the background thread
\* ------------------------------------------------------------------------
MAX_IMAGES == 2

MaxFrames == 5

\* sessions started in a launch of the app, and data points recorded in a session
MaxSessions == 2

MaxSessionFrames == 2

\* ImageReader.acquireNextImage: the oldest queued image, the others stay
acquireNextImage(images) ==
    [image |-> Head(images), older |-> {}, remaining |-> Tail(images)]

\* ImageReader.acquireLatestImage: the newest queued image; the older ones
\* are closed and the queue is left empty
acquireLatestImage(images) ==
    [image |-> images[Len(images)],
     older |-> {images[i] : i \in 1..(Len(images) - 1)},
     remaining |-> <<>>]

\* images the reader holds: queued or acquired and not yet closed
heldImages == Len(queued) + Len(acquired)

\* the camera writes a frame: it is queued and the listener is posted to the
\* background handler, or it is dropped when the reader holds maxImages
cameraFrame ==
    /\ produced < MaxFrames
    /\ produced' = produced + 1
    /\ IF heldImages < MAX_IMAGES
       THEN /\ queued' = Append(queued, produced + 1)
            /\ callbacks' = callbacks + 1
            /\ UNCHANGED dropped
       ELSE /\ dropped' = dropped \cup {produced + 1}
            /\ UNCHANGED <<queued, callbacks>>
    /\ UNCHANGED <<acquired, closed, processed, call, result, appVars>>

\* the listener starts on the background thread: acquireLatestImage()
imageAvailableListener ==
    /\ callbacks > 0
    /\ acquired = <<>>
    /\ callbacks' = callbacks - 1
    /\ IF queued = <<>>
       THEN UNCHANGED <<queued, acquired, closed>>
       ELSE LET latest == acquireLatestImage(queued)
            IN  /\ acquired' = <<latest.image>>
                /\ closed' = closed \cup latest.older
                /\ queued' = latest.remaining
    /\ UNCHANGED <<produced, dropped, processed, call, result, appVars>>

\* processFrame(image) ends, its event sent or its exception caught, and the
\* listener closes the image
imageClose(outcome) ==
    /\ acquired # <<>>
    /\ processed' = Append(processed, [image |-> acquired[1], outcome |-> outcome])
    /\ closed' = closed \cup {acquired[1]}
    /\ acquired' = <<>>
    /\ UNCHANGED <<queued, callbacks, produced, dropped, call, result, appVars>>

InitCameraRun ==
    /\ InitApp
    /\ InitCall
    /\ InitCamera

NextCamera ==
    \/ cameraFrame
    \/ imageAvailableListener
    \/ \E outcome \in {"sent", "caught"} : imageClose(outcome)

SpecCamera == InitCameraRun /\ [][NextCamera]_vars

\* ------------------------------------------------------------------------
\* SessionManager, NetworkService and the session handlers of App
\* ------------------------------------------------------------------------
uploadBatchSize == 50

\* the variables of the app other than the alert and the session state
trackerVars == <<currentTab, currentStep, frameCount, isCollecting, isCompleting, points,
                 rendered, listener, storage, now, svcData, isLoaded,
                 calibrationExists, pending, lagged, runs, runWrites, failed, written,
                 applied>>

NoItems == [meta |-> <<>>, data |-> <<>>]

\* saveSessionMetadata: the item of the current session is written, or the
\* write fails and the error is logged
saveSessionMetadata(store, session, ok) ==
    IF session = <<>> \/ ~ok THEN store
    ELSE [store EXCEPT ![session[1].session_id].meta = session]

\* saveSessionData: nothing is written without a session or without data
saveSessionData(store, session, data, ok) ==
    IF session = <<>> \/ data = <<>> \/ ~ok THEN store
    ELSE [store EXCEPT ![session[1].session_id].data = data]

recording == currentSession # <<>> /\ currentSession[1].status = "recording"

\* what a caller does when the call is over: App shows an alert, another
\* caller of the method does nothing
returnTo(caller, shown) ==
    /\ caller = "App" => alert = "none"
    /\ alert' = IF caller = "App" THEN shown ELSE alert

\* startSession up to its first await
startSession(caller) ==
    /\ starting.pc = "idle"
    /\ IF recording
       THEN /\ returnTo(caller, "error")
            /\ UNCHANGED <<currentSession, sessionData, frameCounter, uploadQueue,
                           apiSessionCreated, starting, sessions, sessionStore>>
       ELSE /\ sessions < MaxSessions
            /\ sessions' = sessions + 1
            /\ currentSession' = <<[session_id |-> sessions', status |-> "recording",
                                    total_frames |-> 0]>>
            /\ sessionData' = <<>>
            /\ frameCounter' = 0
            /\ uploadQueue' = <<>>
            /\ apiSessionCreated' = FALSE
            /\ \E ok \in BOOLEAN :
                   sessionStore' = saveSessionMetadata(Append(sessionStore, NoItems),
                                                       currentSession', ok)
            /\ starting' = [pc |-> "saveSessionMetadata", caller |-> caller]
            /\ UNCHANGED alert
    /\ UNCHANGED <<cloudSyncEnabled, uploadInterval, isOnline, stopping, uploading,
                   trackerVars, nativeVars>>

\* startSession returns the session id
startSessionReturns ==
    /\ starting' = NoTask
    /\ returnTo(starting.caller, "sessionStarted")

\* the metadata write has settled: initializeCloudSync up to its first await
initializeCloudSync ==
    /\ starting.pc = "saveSessionMetadata"
    /\ IF ~cloudSyncEnabled \/ ~isOnline \/ currentSession = <<>>
       THEN startSessionReturns
       ELSE /\ starting' = [starting EXCEPT !.pc = "checkConnection"]
            /\ UNCHANGED alert
    /\ UNCHANGED <<currentSession, sessionData, frameCounter, uploadQueue,
                   cloudSyncEnabled, apiSessionCreated, uploadInterval, isOnline,
                   stopping, uploading, sessions, sessionStore,
                   trackerVars, nativeVars>>

\* the body of the first createRecording request: no data point yet
initialData(session) == [session_id |-> session[1].session_id, data |-> <<>>]

\* checkConnection has answered; a session cleared meanwhile makes the
\* request's construction throw, which initializeCloudSync catches
connectionChecked(isConnected) ==
    /\ starting.pc = "checkConnection"
    /\ IF ~isConnected \/ currentSession = <<>>
       THEN startSessionReturns
       ELSE /\ starting' = [pc |-> "createRecording", caller |-> starting.caller,
                            request |-> initialData(currentSession)]
            /\ UNCHANGED alert
    /\ UNCHANGED <<currentSession, sessionData, frameCounter, uploadQueue,
                   cloudSyncEnabled, apiSessionCreated, uploadInterval, isOnline,
                   stopping, uploading, sessions, sessionStore,
                   trackerVars, nativeVars>>

\* createRecording has answered; on success the periodic upload starts,
\* unless the session was cleared meanwhile and the log line throws
recordingCreated(success) ==
    /\ starting.pc = "createRecording"
    /\ apiSessionCreated' = (apiSessionCreated \/ success)
    /\ uploadInterval' = (uploadInterval \/ (success /\ currentSession # <<>>))
    /\ startSessionReturns
    /\ UNCHANGED <<currentSession, sessionData, frameCounter, uploadQueue,
                   cloudSyncEnabled, isOnline, stopping, uploading, sessions,
                   sessionStore, trackerVars, nativeVars>>

\* the POST / route of the backend: validateRecording and the handler reject a
\* body without data points; session ids are fresh, so no recording exists
routerPost(body) == IF Len(body.data) < 1 THEN 400 ELSE 201

\* uploadDataBatch goes on past its first return
canUpload == cloudSyncEnabled /\ isOnline /\ apiSessionCreated /\ uploadQueue # <<>>

batchSize ==
    IF uploadBatchSize < Len(uploadQueue) THEN uploadBatchSize ELSE Len(uploadQueue)

\* uploadQueue.splice(0, batchSize): the batch taken and the queue left
spliced == SubSeq(uploadQueue, 1, batchSize)

afterSplice == SubSeq(uploadQueue, batchSize + 1, Len(uploadQueue))

\* apiService.uploadDataBatch resolves true after its delay
uploadDataBatchAnswer == TRUE

\* the end of uploadDataBatch: a batch that was refused goes back to the head
\* of the queue
afterUpload(queue, batch, success) == IF success THEN queue ELSE batch \o queue

\* the head of the loop of finalizeCloudSync: one more uploadDataBatch while
\* the queue is not empty, then the final createRecording
finalUploadLoop(task) ==
    IF uploadQueue # <<>>
    THEN IF canUpload
         THEN /\ uploadQueue' = afterSplice
              /\ stopping' = [pc |-> "uploadDataBatch", caller |-> task.caller,
                              batch |-> spliced]
         ELSE /\ stopping' = [task EXCEPT !.pc = "delay"]
              /\ UNCHANGED uploadQueue
    ELSE /\ stopping' = [task EXCEPT !.pc = "createRecording"]
         /\ UNCHANGED uploadQueue

\* finalizeCloudSync is over: saveSessionData up to its await
finalSaveSessionData(task, session) ==
    /\ stopping' = [task EXCEPT !.pc = "saveSessionData"]
    /\ \E ok \in BOOLEAN :
           sessionStore' = saveSessionData(sessionStore, session, sessionData, ok)

\* stopSession up to its first await
stopSession(caller) ==
    /\ stopping.pc = "idle"
    /\ IF currentSession = <<>> \/ currentSession[1].status = "completed"
       THEN /\ returnTo(caller, "error")
            /\ UNCHANGED <<currentSession, uploadQueue, uploadInterval, stopping,
                           sessionStore>>
       ELSE /\ currentSession' = <<[currentSession[1] EXCEPT
                                      !.status = "completed",
                                      !.total_frames = frameCounter]>>
            /\ uploadInterval' = FALSE
            /\ UNCHANGED alert
            /\ IF ~cloudSyncEnabled \/ ~isOnline \/ ~apiSessionCreated
               THEN /\ finalSaveSessionData([pc |-> "called", caller |-> caller],
                                            currentSession')
                    /\ UNCHANGED uploadQueue
               ELSE /\ finalUploadLoop([pc |-> "called", caller |-> caller])
                    /\ UNCHANGED sessionStore
    /\ UNCHANGED <<sessionData, frameCounter, cloudSyncEnabled, apiSessionCreated,
                   isOnline, starting, uploading, sessions, trackerVars, nativeVars>>

\* apiService.uploadDataBatch has answered the batch of the final loop: it
\* answers true, and the loop waits its delay
batchUploaded ==
    /\ stopping.pc = "uploadDataBatch"
    /\ uploadQueue' = afterUpload(uploadQueue, stopping.batch, uploadDataBatchAnswer)
    /\ stopping' = [pc |-> "delay", caller |-> stopping.caller]
    /\ UNCHANGED <<currentSession, sessionData, frameCounter,
                   cloudSyncEnabled, apiSessionCreated, uploadInterval, isOnline,
                   starting, uploading, sessions, sessionStore, alert,
                   trackerVars, nativeVars>>

\* the delay between two uploads of the final loop is over
uploadDelayed ==
    /\ stopping.pc = "delay"
    /\ finalUploadLoop(stopping)
    /\ UNCHANGED <<currentSession, sessionData, frameCounter, cloudSyncEnabled,
                   apiSessionCreated, uploadInterval, isOnline, starting, uploading,
                   sessions, sessionStore, alert, trackerVars, nativeVars>>

\* the final createRecording has answered; its result is only logged
sessionFinalized ==
    /\ stopping.pc = "createRecording"
    /\ finalSaveSessionData(stopping, currentSession)
    /\ UNCHANGED <<currentSession, sessionData, frameCounter, uploadQueue,
                   cloudSyncEnabled, apiSessionCreated, uploadInterval, isOnline,
                   starting, uploading, sessions, alert, trackerVars,
                   nativeVars>>

\* the data write has settled: saveSessionMetadata up to its await
sessionDataSaved ==
    /\ stopping.pc = "saveSessionData"
    /\ stopping' = [stopping EXCEPT !.pc = "saveSessionMetadata"]
    /\ \E ok \in BOOLEAN :
           sessionStore' = saveSessionMetadata(sessionStore, currentSession, ok)
    /\ UNCHANGED <<currentSession, sessionData, frameCounter, uploadQueue,
                   cloudSyncEnabled, apiSessionCreated, uploadInterval, isOnline,
                   starting, uploading, sessions, alert, trackerVars,
                   nativeVars>>

\* the metadata write has settled: the current session is cleared and
\* stopSession returns
sessionCleared ==
    /\ stopping.pc = "saveSessionMetadata"
    /\ stopping' = NoTask
    /\ currentSession' = <<>>
    /\ sessionData' = <<>>
    /\ frameCounter' = 0
    /\ returnTo(stopping.caller, "sessionComplete")
    /\ UNCHANGED <<uploadQueue, cloudSyncEnabled, apiSessionCreated, uploadInterval,
                   isOnline, starting, uploading, sessions, sessionStore,
                   trackerVars, nativeVars>>

\* pauseSession and resumeSession, each with the metadata write it awaits
switchSession(caller, from, to, shown) ==
    /\ IF currentSession = <<>> \/ currentSession[1].status # from
       THEN /\ returnTo(caller, "error")
            /\ UNCHANGED <<currentSession, sessionStore>>
       ELSE /\ currentSession' = <<[currentSession[1] EXCEPT !.status = to]>>
            /\ \E ok \in BOOLEAN :
                   sessionStore' = saveSessionMetadata(sessionStore, currentSession', ok)
            /\ returnTo(caller, shown)
    /\ UNCHANGED <<sessionData, frameCounter, uploadQueue, cloudSyncEnabled,
                   apiSessionCreated, uploadInterval, isOnline, starting, stopping,
                   uploading, sessions, trackerVars, nativeVars>>

pauseSession(caller) ==
    switchSession(caller, "recording", "paused", "sessionPaused")

resumeSession(caller) ==
    switchSession(caller, "paused", "recording", "sessionResumed")

\* a data point numbered with the frame counter as it was before the call
dataPointBeforeCount(session, frame_number) ==
    [session_id |-> session[1].session_id, frame_number |-> frame_number - 1]

\* the data point addDataPoint builds: the id of the session and the frame
\* counter
dataPoint(session, frame_number) ==
    [session_id |-> session[1].session_id, frame_number |-> frame_number]

\* addDataPoint without its check of the session
addDataPointAnyStatus(eyeLandmarks) ==
    IF currentSession = <<>> \/ eyeLandmarks.gazeData = <<>>
    THEN UNCHANGED <<frameCounter, sessionData, uploadQueue, sessionStore>>
    ELSE /\ frameCounter < MaxSessionFrames
         /\ frameCounter' = frameCounter + 1
         /\ sessionData' = Append(sessionData, dataPoint(currentSession, frameCounter'))
         /\ uploadQueue' = IF cloudSyncEnabled
                           THEN Append(uploadQueue,
                                       dataPoint(currentSession, frameCounter'))
                           ELSE uploadQueue
         /\ UNCHANGED sessionStore

\* addDataPoint: a frame with gaze data is counted, stored and queued while
\* the session is recording
addDataPoint(eyeLandmarks) ==
    IF ~recording \/ eyeLandmarks.gazeData = <<>>
    THEN UNCHANGED <<frameCounter, sessionData, uploadQueue, sessionStore>>
    ELSE /\ frameCounter < MaxSessionFrames
         /\ frameCounter' = frameCounter + 1
         /\ sessionData' = Append(sessionData, dataPoint(currentSession, frameCounter'))
         /\ uploadQueue' = IF cloudSyncEnabled
                           THEN Append(uploadQueue,
                                       dataPoint(currentSession, frameCounter'))
                           ELSE uploadQueue
         /\ IF frameCounter' % 100 = 0
            THEN \E ok \in BOOLEAN :
                     sessionStore' = saveSessionData(sessionStore, currentSession,
                                                     sessionData', ok)
            ELSE UNCHANGED sessionStore

\* the camera emits a frame while the callback of App is subscribed
onFrame(frame) ==
    /\ listener = AppListener
    /\ addDataPoint(frame)
    /\ UNCHANGED <<currentSession, cloudSyncEnabled, apiSessionCreated, uploadInterval,
                   isOnline, starting, stopping, uploading, sessions, alert,
                   trackerVars, nativeVars>>

\* the upload timer fires: uploadDataBatch up to its await.  Without a current
\* session the batch is taken off the queue and the call throws, caught
periodicUpload ==
    /\ uploadInterval
    /\ uploading = <<>>
    /\ canUpload
    /\ uploadQueue' = afterSplice
    /\ uploading' = IF currentSession # <<>> THEN spliced ELSE <<>>
    /\ UNCHANGED <<currentSession, sessionData, frameCounter, cloudSyncEnabled,
                   apiSessionCreated, uploadInterval, isOnline, starting, stopping,
                   sessions, sessionStore, alert, trackerVars, nativeVars>>

\* apiService.uploadDataBatch has answered a periodic batch: it answers true
periodicUploaded ==
    /\ uploading # <<>>
    /\ uploadQueue' = afterUpload(uploadQueue, uploading, uploadDataBatchAnswer)
    /\ uploading' = <<>>
    /\ UNCHANGED <<currentSession, sessionData, frameCounter,
                   cloudSyncEnabled, apiSessionCreated, uploadInterval, isOnline,
                   starting, stopping, sessions, sessionStore, alert,
                   trackerVars, nativeVars>>

\* the NetInfo listener of NetworkService
networkChanged ==
    /\ isOnline' = ~isOnline
    /\ UNCHANGED <<currentSession, sessionData, frameCounter, uploadQueue,
                   cloudSyncEnabled, apiSessionCreated, uploadInterval, starting,
                   stopping, uploading, sessions, sessionStore, alert,
                   trackerVars, nativeVars>>

setCloudSyncEnabled(enabled) ==
    /\ cloudSyncEnabled # enabled
    /\ cloudSyncEnabled' = enabled
    /\ UNCHANGED <<currentSession, sessionData, frameCounter, uploadQueue,
                   apiSessionCreated, uploadInterval, isOnline, starting, stopping,
                   uploading, sessions, sessionStore, alert, trackerVars,
                   nativeVars>>

\* the session buttons of the tracker tab: Start Session is shown without a
\* current session, Pause or Resume and Stop Session with one
handleStartSession ==
    /\ currentTab = "tracker"
    /\ alert = "none"
    /\ currentSession = <<>>
    /\ startSession("App")

handleStopSession ==
    /\ currentTab = "tracker"
    /\ alert = "none"
    /\ currentSession # <<>>
    /\ stopSession("App")

handlePauseResumeSession ==
    /\ currentTab = "tracker"
    /\ alert = "none"
    /\ currentSession # <<>>
    /\ currentSession[1].status \in {"recording", "paused"}
    /\ IF currentSession[1].status = "recording"
       THEN pauseSession("App") ELSE resumeSession("App")

\* the OK button of an alert of the session handlers
sessionAlertOk ==
    /\ alert \in {"sessionStarted", "sessionComplete", "sessionPaused",
                  "sessionResumed", "error"}
    /\ alert' = "none"
    /\ UNCHANGED <<sessionVars, trackerVars, nativeVars>>

\* ------------------------------------------------------------------------
\* The methods of SessionManager called in any order, the network and the
\* server being free to answer as they like
\* ------------------------------------------------------------------------
NextSession ==
    \/ startSession("client")
    \/ initializeCloudSync
    \/ \E isConnected \in BOOLEAN : connectionChecked(isConnected)
    \/ \E success \in BOOLEAN : recordingCreated(success)
    \/ stopSession("client")
    \/ batchUploaded
    \/ uploadDelayed
    \/ sessionFinalized
    \/ sessionDataSaved
    \/ sessionCleared
    \/ pauseSession("client")
    \/ resumeSession("client")
    \/ \E frame \in Frames : onFrame(frame)
    \/ periodicUpload
    \/ periodicUploaded
    \/ networkChanged
    \/ \E enabled \in BOOLEAN : setCloudSyncEnabled(enabled)

SpecSession == Init /\ [][NextSession]_vars

\* ------------------------------------------------------------------------
\* stopSession on a recording session: the session has one data point or one
\* more than a batch, the queue holds none or all of them, and the first
\* createRecording was accepted or not.  What stopSession awaits settles;
\* the network and the cloud sync switch are free.
\* ------------------------------------------------------------------------
InitStop ==
    /\ InitTracker
    /\ InitCall
    /\ InitCamera
    /\ sessions = 1
    /\ currentSession = <<[session_id |-> 1, status |-> "recording", total_frames |-> 0]>>
    /\ frameCounter \in {1, uploadBatchSize + 1}
    /\ sessionData = [k \in 1..frameCounter |-> dataPoint(currentSession, k)]
    /\ uploadQueue \in {<<>>, sessionData}
    /\ cloudSyncEnabled = TRUE
    /\ apiSessionCreated \in BOOLEAN
    /\ uploadInterval = apiSessionCreated
    /\ isOnline \in BOOLEAN
    /\ starting = NoTask
    /\ stopping = NoTask
    /\ uploading = <<>>
    /\ sessionStore = <<[meta |-> currentSession, data |-> <<>>]>>

NextStop ==
    \/ stopSession("client")
    \/ batchUploaded
    \/ uploadDelayed
    \/ sessionFinalized
    \/ sessionDataSaved
    \/ sessionCleared
    \/ networkChanged
    \/ \E enabled \in BOOLEAN : setCloudSyncEnabled(enabled)

SpecStop ==
    /\ InitStop
    /\ [][NextStop]_vars
    /\ WF_vars(batchUploaded)
    /\ WF_vars(uploadDelayed)
    /\ WF_vars(sessionFinalized)
    /\ WF_vars(sessionDataSaved)
    /\ WF_vars(sessionCleared)

\* ------------------------------------------------------------------------
\* Sessions recorded from the tracker tab against the backend of the
\* repository: cloud sync stays enabled, the network online, the server
\* healthy, and createRecording is answered by the POST / route
\* ------------------------------------------------------------------------
NextCloud ==
    \/ handleStartSession
    \/ initializeCloudSync
    \/ connectionChecked(TRUE)
    \/ recordingCreated(routerPost(starting.request) = 201)
    \/ \E frame \in Frames : onFrame(frame)
    \/ handlePauseResumeSession
    \/ handleStopSession
    \/ sessionDataSaved
    \/ sessionCleared
    \/ sessionAlertOk

SpecCloud == Init /\ [][NextCloud]_vars

\* ------------------------------------------------------------------------
\* The tracker tab and the calibration tab of one launch: a session started
\* from the tracker tab with the API server out of reach, calibration runs,
\* and the frames the camera emits to the callback that is subscribed
\* ------------------------------------------------------------------------
NextTracker ==
    \/ handleCalibrate
    \/ handleTracker
    \/ startCollection
    \/ \E frame \in Frames : onCameraFrame(frame)
    \/ \E frame \in Frames : onFrame(frame)
    \/ Render
    \/ alertOk
    \/ continuation
    \/ handleStartSession
    \/ initializeCloudSync
    \/ connectionChecked(FALSE)

SpecTracker == Init /\ [][NextTracker]_vars

\* ------------------------------------------------------------------------
\* Properties
\* ------------------------------------------------------------------------
initialScreen(step, count, collecting, completing, pts) ==
    /\ step = "left"
    /\ count = 0
    /\ ~collecting
    /\ ~completing
    /\ pts = <<>>

failureAlerts == {"incomplete", "insufficient"}

\* C1: the current step changes only from left to center or from center to
\* right, and then only when the frame count has reached FRAMES_PER_POSITION,
\* or back to left together with the whole initial state; the computation
\* starts only at step right with the frame count reached; and a reset leaves
\* the initial state whatever the state was.
C1_StepOrder ==
    [][/\ currentStep' # currentStep =>
            \/ /\ <<currentStep, currentStep'>> \in
                      {<<"left", "center">>, <<"center", "right">>}
               /\ frameCount >= FRAMES_PER_POSITION
            \/ initialScreen(currentStep', frameCount', isCollecting',
                             isCompleting', points')
       /\ (isCompleting' /\ ~isCompleting) =>
            /\ currentStep = "right"
            /\ frameCount >= FRAMES_PER_POSITION
       /\ (mounted /\ runs' # runs) =>
            initialScreen(currentStep', frameCount', isCollecting',
                          isCompleting', points')]_vars

\* the computation has started in the second run of the screen
C1_Witness == isCompleting /\ currentStep = "right" /\ runs = MaxRuns /\ mounted

\* C2: no point ever holds more than FRAMES_PER_POSITION samples, and the
\* point of every position the run has advanced past, and every point once
\* the computation has started, holds exactly FRAMES_PER_POSITION samples.
C2_FifteenSamples ==
    /\ \A i \in 1..Len(points) : Len(points[i].gazeValues) <= FRAMES_PER_POSITION
    /\ \A pos \in PositionSet :
         (indexOf(pos) < indexOf(currentStep) \/ isCompleting) =>
            /\ findPoint(points, pos) # 0
            /\ Len(points[findPoint(points, pos)].gazeValues) = FRAMES_PER_POSITION

\* C3: when the completion is attempted on points that lack a position or
\* hold a point with fewer than MIN_POINT_FRAMES samples, a failure alert goes
\* up and nothing is written: the stored item, the awaited operations and the
\* service's transform stay as they were.
C3_FailureWritesNothing ==
    [][(/\ isCompleting' /\ ~isCompleting
        /\ \/ \E pos \in PositionSet : findPoint(points, pos) = 0
           \/ \E i \in 1..Len(points) : Len(points[i].gazeValues) < MIN_POINT_FRAMES)
       => /\ alert' \in failureAlerts
          /\ storage' = storage
          /\ written' = written
          /\ pending' = pending
          /\ svcData' = svcData
          /\ isLoaded' = isLoaded]_vars

\* a completion has failed on a missing position and the earlier record is
\* still the stored one
C3_Witness ==
    /\ alert = "incomplete"
    /\ isCompleting
    /\ storage = <<PriorText>>
    /\ runWrites = 0

C5_InsufficientDataFails ==
    [][(/\ isCompleting' /\ ~isCompleting
        /\ \/ Len(points) < 3
           \/ Len(validAveragesOf(points)) < 2)
       => /\ alert' \in failureAlerts
          /\ storage' = storage
          /\ pending' = pending]_vars

\* C6: the stored item is absent or complete: every text ever stored has
\* isComplete true and a linearTransform whose slope and intercept are
\* written as finite numbers.
C6_PersistedComplete ==
    \A text \in written \cup {storage[i] : i \in 1..Len(storage)} :
        /\ text.isComplete = TRUE
        /\ Len(text.linearTransform) = 1
        /\ text.linearTransform[1].slope.txt = "number"
        /\ text.linearTransform[1].intercept.txt = "number"

\* the run on three equal means has stored its record, taken from the
\* range-based fallback
C6_Witness ==
    /\ runWrites = 1
    /\ points = threePoints(Rat(1, 2), Rat(1, 2), Rat(1, 2))
    /\ storage # <<>>
    /\ storage[1].timestamp > 0

\* C7: between two resets the item 'gazeCalibration' is written at most once.
C7_OneWritePerRun == runWrites <= 1

\* after the write of a run, a further collection has counted
\* FRAMES_PER_POSITION frames
C7_Witness ==
    /\ runWrites = 1
    /\ isCompleting
    /\ isCollecting
    /\ frameCount >= FRAMES_PER_POSITION

\* C8: a call of applyCalibratedGaze returns the raw value, the service
\* holding no complete transform, or the value computed from the slope and
\* the intercept of one record, and that record is one that was stored whole.
C8_OneRecord ==
    applied.called =>
        \/ /\ applied.out = applied.raw
           /\ \/ ~applied.loaded
              \/ applied.data = <<>>
        \/ \E text \in written :
              LET record == JSONparse(text)
              IN  /\ record.isComplete = TRUE
                  /\ record.linearTransform # <<>>
                  /\ applied.loaded
                  /\ applied.data = <<record>>
                  /\ applied.out =
                        clamp(Add(Mul(toNumber(record.linearTransform[1].slope),
                                      applied.raw),
                                  toNumber(record.linearTransform[1].intercept)))

\* a call has used the record of the run while the earlier record had been
\* stored before it
C8_Witness ==
    /\ applied.called
    /\ applied.data # <<>>
    /\ applied.data[1].timestamp > 0
    /\ PriorText \in written
    /\ applied.out # applied.raw

\* C9: every step that appends a sample appends one sample to the point of
\* the current step and advances the frame count, which is the count of the
\* current step, by one.
C9_OnePosition ==
    [][(points' # points /\ points' # <<>>) =>
          /\ frameCount' = frameCount + 1
          /\ \E frame \in Frames :
                /\ frameAccepted(frame)
                /\ points' = addGazeValue(points, currentStep, frame.gazeData[1])]_vars

\* C10: a call of applyCalibratedGaze made while the service is not loaded,
\* or holds no record, or holds a record that is not complete or has no
\* transform, returns the raw value itself.
C10_IdentityWhenNotLoaded ==
    (/\ applied.called
     /\ \/ ~applied.loaded
        \/ applied.data = <<>>
        \/ applied.data[1].isComplete # TRUE
        \/ applied.data[1].linearTransform = <<>>)
    => applied.out = applied.raw

\* a call with a raw value outside [-1, 1] was made while the reload that
\* follows a completed run was awaited
C10_Witness ==
    /\ applied.called
    /\ applied.raw = Int2Num(2)
    /\ applied.out = Int2Num(2)
    /\ ~isLoaded
    /\ svcData = <<>>
    /\ ~applied.loaded
    /\ \E i \in 1..Len(pending) :
         pending[i].op = "getItem" /\ pending[i].caller = "onCalibrationComplete"

\* x <= y for numbers
AtMost(x, y) == x = y \/ Less(x, y)

\* C11: a call of applyCalibratedGaze made while a complete record with a
\* transform is loaded returns slope * raw + intercept when that lies in
\* [-1, 1], -1 when it is below and 1 when it is above, so that the returned
\* value lies in [-1, 1].
C11_ClampedTransform ==
    (/\ applied.called
     /\ applied.loaded
     /\ applied.data # <<>>
     /\ applied.data[1].isComplete = TRUE
     /\ applied.data[1].linearTransform # <<>>)
    => LET slope == toNumber(applied.data[1].linearTransform[1].slope)
           intercept == toNumber(applied.data[1].linearTransform[1].intercept)
           v == Add(Mul(slope, applied.raw), intercept)
       IN  /\ applied.out = IF Less(v, Int2Num(-1)) THEN Int2Num(-1)
                            ELSE IF Less(Int2Num(1), v) THEN Int2Num(1)
                            ELSE v
           /\ AtMost(Int2Num(-1), applied.out)
           /\ AtMost(applied.out, Int2Num(1))

\* a call on the loaded earlier record (slope 2, intercept 1/4) with the raw
\* value 2 has returned 1
C11_Witness ==
    /\ applied.called
    /\ applied.loaded
    /\ applied.data = <<JSONparse(PriorText)>>
    /\ applied.raw = Int2Num(2)
    /\ applied.out = Int2Num(1)

origin == Point(Int2Num(0), Int2Num(0))

decoderReturned == call.fn = "processBlazeFaceDetections" /\ result.returned

\* C12: when the confidence of every classificator entry is at most the
\* threshold, the decoder selects no detection and returns the landmarks of
\* no face: confidence 0, every iris and eye corner at the origin, no gaze data.
C12_NoDetectionSentinel ==
    (/\ decoderReturned
     /\ \A i \in 1..Len(call.classificators) :
           AtMost(sigmoid(call.classificators[i]), Rat(1, 100)))
    => /\ result.value.index = 0
       /\ result.value.box = <<>>
       /\ result.value.landmarks.confidence = Int2Num(0)
       /\ result.value.landmarks.gazeData = <<>>
       /\ \A eye \in {result.value.landmarks.leftEye, result.value.landmarks.rightEye} :
             eye.iris = origin /\ eye.innerCorner = origin /\ eye.outerCorner = origin

\* the decoder has returned for logits whose confidences are below the
\* threshold, the largest of them not at the first index
C12_Witness ==
    /\ decoderReturned
    /\ call.classificators = <<-6, -5, -6>>
    /\ result.value.landmarks.confidence = Int2Num(0)
    /\ result.value.landmarks.gazeData = <<>>

\* the face box of a regressor row: the centre and the size scaled by the
\* image's width and height over INPUT_SIZE, the corner half a size from the centre
rescaledRow(row, imageWidth, imageHeight) ==
    LET centerX == Div(Mul(row[1], Int2Num(imageWidth)), Int2Num(128))
        centerY == Div(Mul(row[2], Int2Num(imageHeight)), Int2Num(128))
        width == Div(Mul(row[3], Int2Num(imageWidth)), Int2Num(128))
        height == Div(Mul(row[4], Int2Num(imageHeight)), Int2Num(128))
    IN  [faceLeft   |-> Sub(centerX, Mul(width, Rat(1, 2))),
         faceTop    |-> Sub(centerY, Mul(height, Rat(1, 2))),
         faceWidth  |-> width,
         faceHeight |-> height]

\* C13 as stated: whenever one logit is larger than every other, the decoder
\* selects its row, and the face box is that row rescaled.
C13_MaximalLogitSelected ==
    decoderReturned =>
        \A k \in 1..Len(call.classificators) :
            (\A j \in 1..Len(call.classificators) :
                j # k => call.classificators[j] < call.classificators[k])
            => /\ result.value.index = k
               /\ result.value.box =
                     <<rescaledRow(call.regressors[k], call.imageWidth, call.imageHeight)>>

\* C13: when the largest confidence exceeds the threshold, the decoder selects
\* the first index at which the confidence is the largest, and the face box is
\* that row rescaled; this is the index of a single maximal logit unless an
\* earlier logit has the same confidence in Float arithmetic.
C13_FirstBestAboveThreshold ==
    decoderReturned =>
        \A k \in 1..Len(call.classificators) :
            (/\ Less(Rat(1, 100), sigmoid(call.classificators[k]))
             /\ \A j \in 1..Len(call.classificators) :
                   /\ AtMost(sigmoid(call.classificators[j]), sigmoid(call.classificators[k]))
                   /\ j < k => Less(sigmoid(call.classificators[j]),
                                    sigmoid(call.classificators[k])))
            => /\ result.value.index = k
               /\ result.value.box =
                     <<rescaledRow(call.regressors[k], call.imageWidth, call.imageHeight)>>

\* the decoder has selected the single maximal logit, at the second index,
\* of an image that is not square
C13_Witness ==
    /\ decoderReturned
    /\ call.classificators = <<-6, 0, -4>>
    /\ call.imageWidth = 160
    /\ call.imageHeight = 96
    /\ result.value.index = 2
    /\ result.value.box = <<[faceLeft |-> Int2Num(25), faceTop |-> Int2Num(21),
                             faceWidth |-> Int2Num(25), faceHeight |-> Int2Num(18)]>>

\* C14: for finite iris and corner positions, in either order of the corners,
\* the normalized gaze lies in [-1, 1], and it is 0 whenever the distance
\* between the corners is below 0.001.
C14_NormalizedGazeBounded ==
    (/\ call.fn = "calculateNormalizedGaze"
     /\ result.returned
     /\ isFinite(call.irisX) /\ isFinite(call.leftEyeX) /\ isFinite(call.rightEyeX))
    => LET span == IF Less(call.leftEyeX, call.rightEyeX)
                   THEN Sub(call.rightEyeX, call.leftEyeX)
                   ELSE Sub(call.leftEyeX, call.rightEyeX)
       IN  /\ AtMost(Int2Num(-1), result.value.normalizedGazeX)
           /\ AtMost(result.value.normalizedGazeX, Int2Num(1))
           /\ Less(span, Rat(1, 1000)) => result.value.normalizedGazeX = Int2Num(0)

\* the normalization has returned 1 for an iris right of both corners, the
\* corners given in reverse order
C14_Witness ==
    /\ call.fn = "calculateNormalizedGaze"
    /\ result.returned
    /\ call.irisX = Int2Num(5)
    /\ call.leftEyeX = Int2Num(3)
    /\ call.rightEyeX = Int2Num(0)
    /\ result.value.normalizedGazeX = Int2Num(1)

\* C15: when the eye region's window, clipped to the bitmap, has no area,
\* as when the region lies wholly left of, right of, above or below the
\* bitmap, the iris detection returns the region's centre X and reads no pixel.
C15_EmptyWindowReturnsCenter ==
    (/\ call.fn = "detectIrisInEyeRegion"
     /\ result.returned)
    => LET half == Div(call.eyeRegionSize, Int2Num(2))
           b == regionBounds(call.bitmap, call.eyeCenterX, call.eyeCenterY,
                             call.eyeRegionSize)
       IN  (\/ b.right <= b.left
            \/ b.bottom <= b.top
            \/ Less(Add(call.eyeCenterX, half), Int2Num(0))
            \/ Less(Int2Num(call.bitmap.width), Sub(call.eyeCenterX, half))
            \/ Less(Add(call.eyeCenterY, half), Int2Num(0))
            \/ Less(Int2Num(call.bitmap.height), Sub(call.eyeCenterY, half)))
           => /\ result.value.x = call.eyeCenterX
              /\ result.value.reads = 0

\* the iris detection has returned the centre of a region that lies wholly
\* right of a bitmap with a pupil
C15_Witness ==
    /\ call.fn = "detectIrisInEyeRegion"
    /\ result.returned
    /\ call.bitmap.pupilX = 2
    /\ call.eyeCenterX = Int2Num(12)
    /\ call.eyeCenterY = Int2Num(3)
    /\ call.eyeRegionSize = Int2Num(4)
    /\ result.value.x = Int2Num(12)
    /\ result.value.reads = 0

processFrameReturned == call.fn = "processFrame" /\ result.returned

\* C20 as stated: processFrame fails with an exception exactly when the model
\* is not loaded or the inference fails.
C20_HardFailure ==
    processFrameReturned =>
        (result.value.thrown <=> (~call.isModelLoaded \/ ~call.inferenceRuns))

\* C20: processFrame never throws.  It returns null when the model is not
\* loaded, when the image cannot be converted to a bitmap and when the
\* inference throws, and landmarks otherwise; CameraModule.processFrame
\* catches nothing and sends the frame event, with the landmarks if there are any.
C20_NullNotFailure ==
    processFrameReturned =>
        /\ ~result.value.thrown
        /\ result.value.landmarks = <<>> <=>
              (~call.isModelLoaded \/ ~call.bitmapConverted \/ ~call.inferenceRuns)
        /\ ~result.value.caught
        /\ Len(result.value.event) = 1
        /\ result.value.event[1].eyeLandmarks = result.value.landmarks

\* processFrame has returned null for a model that is loaded and an
\* inference that threw, and the frame event went out without landmarks
C20_Witness ==
    /\ processFrameReturned
    /\ call.isModelLoaded
    /\ call.bitmapConverted
    /\ ~call.inferenceRuns
    /\ result.value.landmarks = <<>>
    /\ ~result.value.thrown
    /\ result.value.event # <<>>
    /\ result.value.event[1].eyeLandmarks = <<>>

fitReturned == call.fn = "calculateLinearTransform" /\ result.returned

fitApplied == fitReturned /\ result.applied # <<>>

\* |x - y| <= tolerance
Within(x, y, tolerance) ==
    /\ AtMost(Sub(x, y), tolerance)
    /\ AtMost(Sub(y, x), tolerance)

twoEqualMeans(means) ==
    means[1] = means[2] \/ means[2] = means[3] \/ means[1] = means[3]

\* C16 as stated: when two of the three means are equal, the transform is the
\* one of the fallback branch, and its slope and intercept are finite.
C16_TwoEqualMeansFallback ==
    (fitReturned /\ twoEqualMeans(call.means))
    => /\ result.branch = "fallback"
       /\ isFinite(result.transform.slope)
       /\ isFinite(result.transform.intercept)

\* C16: the fallback branch is taken exactly when all three means are equal,
\* the regression's denominator being the sum of the squared differences of
\* the means; with two equal means and a third that differs the transform
\* is the regression's, and in every case the slope and the intercept are finite.
C16_EqualMeansFallback ==
    fitReturned
    => /\ result.branch = "fallback" <=>
             (call.means[1] = call.means[2] /\ call.means[2] = call.means[3])
       /\ result.branch \in {"fallback", "regression"}
       /\ result.branch = "fallback" =>
             result.transform = [slope |-> Int2Num(1), intercept |-> Neg(call.means[1])]
       /\ isFinite(result.transform.slope)
       /\ isFinite(result.transform.intercept)

\* the means 0.5, 0.5, 0.9 have given the regression's transform
C16_Witness ==
    /\ fitReturned
    /\ call.means = <<Rat(1, 2), Rat(1, 2), Rat(9, 10)>>
    /\ result.branch = "regression"
    /\ result.transform = [slope |-> Rat(15, 4), intercept |-> Rat(-19, 8)]

\* C17 as stated: on the regression branch the transform applied to each of
\* the three means gives the mean's target within 0.05.
C17_RoundTrip ==
    (fitApplied /\ result.branch = "regression")
    => \A i \in 1..3 :
          Within(result.applied[i], Int2Num(call.points[i].targetValue), Rat(1, 20))

\* C17: on the regression branch the transform applied to the three means
\* gives the targets -1, 0, 1 themselves when the centre mean lies midway
\* between the left and the right mean, and gives them within 0.05 for the
\* means -0.85, 0.01, 0.90.
C17_RoundTripEquallySpaced ==
    (fitApplied /\ result.branch = "regression")
    => /\ Sub(call.means[2], call.means[1]) = Sub(call.means[3], call.means[2])
          => \A i \in 1..3 : result.applied[i] = Int2Num(call.points[i].targetValue)
       /\ call.means = <<Rat(-17, 20), Rat(1, 100), Rat(9, 10)>>
          => \A i \in 1..3 :
                Within(result.applied[i], Int2Num(call.points[i].targetValue), Rat(1, 20))

\* the transform fitted on the means 0, 0.5, 1 has been applied to them
C17_Witness ==
    /\ fitApplied
    /\ call.means = <<Int2Num(0), Rat(1, 2), Int2Num(1)>>
    /\ result.branch = "regression"
    /\ result.applied = <<Int2Num(-1), Int2Num(0), Int2Num(1)>>

\* C18: for the means -0.85, 0.01, 0.90 the slope is positive and the
\* intercept lies strictly between -0.1 and 0.1; on the regression branch
\* the slope is positive exactly when the right mean exceeds the left mean.
C18_SlopeSign ==
    fitReturned
    => /\ call.means = <<Rat(-17, 20), Rat(1, 100), Rat(9, 10)>>
          => /\ Less(Int2Num(0), result.transform.slope)
             /\ Less(Rat(-1, 10), result.transform.intercept)
             /\ Less(result.transform.intercept, Rat(1, 10))
       /\ result.branch = "regression"
          => (Less(Int2Num(0), result.transform.slope) <=>
                Less(call.means[1], call.means[3]))

\* the means -0.85, 0.01, 0.90 have given a transform of the regression
\* branch with a slope above 1
C18_Witness ==
    /\ fitReturned
    /\ call.means = <<Rat(-17, 20), Rat(1, 100), Rat(9, 10)>>
    /\ result.branch = "regression"
    /\ Less(Int2Num(1), result.transform.slope)

\* the images the camera has written
producedImages == 1..produced

processedImages == {processed[i].image : i \in 1..Len(processed)}

Range(s) == {s[i] : i \in 1..Len(s)}

\* every written image is queued, acquired, closed or was dropped on arrival,
\* and an image that is queued or acquired is not closed
imagesAccounted ==
    /\ producedImages = Range(queued) \cup Range(acquired) \cup closed \cup dropped
    /\ (Range(queued) \cup Range(acquired)) \cap (closed \cup dropped) = {}
    /\ Range(queued) \cap Range(acquired) = {}

\* a step of the listener that acquires an image takes the newest queued
\* image, closes the older ones and leaves the queue empty
listenerTakesLatest ==
    (callbacks' = callbacks - 1 /\ acquired' # <<>>)
    => /\ acquired' = <<queued[Len(queued)]>>
       /\ queued' = <<>>
       /\ closed' = closed \cup (Range(queued) \ {queued[Len(queued)]})

\* a step that ends the processing of an image closes the image, whether the
\* event was sent or an exception was caught
processedImageClosed ==
    (acquired # <<>> /\ acquired' = <<>>)
    => /\ acquired[1] \in closed'
       /\ processed' = Append(processed, processed'[Len(processed')])
       /\ processed'[Len(processed')].image = acquired[1]

\* C19: the reader never holds more than 2 images; the listener acquires only
\* the newest queued image and the older queued ones are closed unprocessed;
\* every image that was acquired is closed when its processing ends, also
\* when the processing failed, so every processed image is closed.
C19_BoundedFrames ==
    /\ [](heldImages <= MAX_IMAGES)
    /\ [](Len(acquired) <= 1)
    /\ [](imagesAccounted)
    /\ [](processedImages \subseteq closed)
    /\ [][listenerTakesLatest]_vars
    /\ [][processedImageClosed]_vars

\* two images were queued, the listener took the second and the first was
\* closed unprocessed; the processing of the second failed and it was closed;
\* a later image was dropped while the reader held two
C19_Witness ==
    /\ 1 \in closed
    /\ 1 \notin processedImages
    /\ \E i \in 1..Len(processed) :
          /\ processed[i] = [image |-> 2, outcome |-> "caught"]
          /\ 2 \in closed
    /\ dropped # {}

\* nothing is stored under 'gazeCalibration' and no storage operation is awaited
nothingStored == storage = <<>> /\ pending = <<>>

\* C25: once the stored data has been removed (Clear All Data confirmed and
\* settled, also after a later loadCalibration that found nothing), the
\* service is not calibrated and applyCalibratedGaze returns its input.
C25_ClearAllClearsService ==
    nothingStored
    => /\ ~isCalibrated(isLoaded, svcData)
       /\ \A rawGazeX \in RawValues :
             applyCalibratedGaze(isLoaded, svcData, rawGazeX) = rawGazeX

\* C26: once the run is completing no sample is appended to any point: the
\* points stay as they are until they are dropped by a reset or by leaving
\* the screen, whatever button is pressed and whatever frame arrives.
C26_NoSampleWhileCompleting ==
    [][isCompleting => (points' = points \/ points' = <<>>)]_vars

\* the frames that carry gaze data and a confidence strictly above 0.3
confidentFrames ==
    {frame \in Frames : frame.gazeData # <<>> /\ frame.confidence > MIN_CONFIDENCE_TENTHS}

storedValues ==
    UNION {{points[i].gazeValues[j] : j \in 1..Len(points[i].gazeValues)} :
             i \in 1..Len(points)}

\* C27: every stored value is the normalizedGazeX of a frame with gaze data
\* and a confidence strictly above 0.3, and the points grow and the frame
\* count rises only by one such frame, whose value is appended to one point
\* while the count rises by one; any other frame changes neither.
C27_OnlyConfidentSamples ==
    /\ [](storedValues \subseteq {frame.gazeData[1] : frame \in confidentFrames})
    /\ [][((points' # points /\ points' # <<>>) \/ frameCount' > frameCount)
            => \E frame \in confidentFrames, step \in PositionSet :
                  /\ points' = addGazeValue(points, step, frame.gazeData[1])
                  /\ frameCount' = frameCount + 1]_vars

\* two frames with confidence 0.5 have been stored for the left position
C27_Witness ==
    /\ mounted
    /\ isCollecting
    /\ frameCount = 2
    /\ points = <<pointOf("left", GoodGaze, 2)>>

\* C28: the calibration data holds at most one point per position, hence at
\* most three points, and the targetValue of each point is the one of its
\* position: -1 for left, 0 for center, 1 for right.
C28_OnePointPerPosition ==
    /\ Len(points) <= 3
    /\ \A i, j \in 1..Len(points) : points[i].position = points[j].position => i = j
    /\ \A i \in 1..Len(points) :
          /\ points[i].position \in PositionSet
          /\ points[i].targetValue = stepConfig[points[i].position].targetValue
          /\ points[i].targetValue = indexOf(points[i].position) - 2

\* the three positions have been collected, each into its own point
C28_Witness ==
    /\ mounted
    /\ Len(points) = 3
    /\ \A i \in 1..3 :
          /\ points[i].position = Positions[i]
          /\ Len(points[i].gazeValues) >= FRAMES_PER_POSITION

\* the record of a calibration run of this launch is the stored one
runPersisted == storage # <<>> /\ storage[1] # PriorText

\* C29: once a run has persisted its record, a call of applyCalibratedGaze
\* gives what the persisted slope and intercept give: not what the transform
\* loaded before the run gives, and not its input.
C29_NewTransformActive ==
    runPersisted
    => \A rawGazeX \in RawValues :
          applyCalibratedGaze(isLoaded, svcData, rawGazeX) =
             applyCalibratedGaze(TRUE, <<JSONparse(storage[1])>>, rawGazeX)

\* the pixels read by the scan of the call's eye region, in scan order
scannedPixels ==
    LET b == regionBounds(call.bitmap, call.eyeCenterX, call.eyeCenterY,
                          call.eyeRegionSize)
    IN  IF b.right <= b.left \/ b.bottom <= b.top THEN <<>>
        ELSE scanOrder(b.left, b.top, b.right, b.bottom)

scannedIntensity(k) ==
    intensityOf(getPixel(call.bitmap, scannedPixels[k].x, scannedPixels[k].y))

\* the first pixel in scan order whose intensity is the least of the scan
firstDarkest ==
    CHOOSE k \in 1..Len(scannedPixels) :
        /\ \A j \in 1..Len(scannedPixels) : scannedIntensity(k) <= scannedIntensity(j)
        /\ \A j \in 1..(k - 1) : scannedIntensity(j) > scannedIntensity(k)

irisScanned ==
    /\ call.fn = "detectIrisInEyeRegion"
    /\ result.returned
    /\ Len(scannedPixels) > 0

\* C30 as stated: when pixels were scanned, the position before smoothing is
\* the X of the first pixel in scan order whose intensity is the least of
\* the scanned pixels, whatever the image holds.
C30_FirstDarkestPixel ==
    irisScanned
    => result.value.darkestX = Int2Num(scannedPixels[firstDarkest].x)

\* C30: when pixels were scanned and the least intensity of the scanned pixels
\* is below 255, the position before smoothing is the X of the first pixel
\* in scan order that has this intensity; when every scanned pixel has the
\* intensity 255 (pure white), it is the centre X of the eye region.
C30_FirstDarkestBelowWhite ==
    irisScanned
    => IF scannedIntensity(firstDarkest) < 10 * 255
       THEN result.value.darkestX = Int2Num(scannedPixels[firstDarkest].x)
       ELSE result.value.darkestX = call.eyeCenterX

\* two pixels of the least intensity in different columns: the one of the
\* first scan line has been taken
C30_Witness ==
    /\ irisScanned
    /\ call \in GridIrisCalls
    /\ call.bitmap.pixels = <<<<WhitePixel, WhitePixel>>, <<GreyPixel, DarkPixel>>,
                              <<DarkPixel, WhitePixel>>, <<WhitePixel, WhitePixel>>>>
    /\ result.value.darkestX = Int2Num(1)
    /\ result.value.reads = 6

\* a session has been started and not stopped
inProgress ==
    currentSession # <<>> /\ currentSession[1].status \in {"recording", "paused"}

\* C22: while a session is recording or paused no call of startSession goes
\* past its check: no other session is started, and the session, its data
\* points, the frame counter and the upload queue are those of the session
\* in progress until it is stopped
C22_NoSessionDiscarded ==
    [][inProgress =>
          /\ sessions' = sessions
          /\ currentSession' # <<>>
          /\ currentSession'[1].session_id = currentSession[1].session_id
          /\ Len(sessionData') >= Len(sessionData)
          /\ frameCounter' >= frameCounter]_vars

\* C23: a call of stopSession that went past its check is eventually over,
\* with the current session cleared, whatever the network does meanwhile
C23_StopCompletes ==
    (stopping.pc # "idle") ~> (stopping.pc = "idle" /\ currentSession = <<>>)

\* C24: with cloud sync enabled and the network online, once startSession
\* has returned and the session is recording, the session has been created
\* in the backend and the periodic upload is running
C24_SessionCreatedInBackend ==
    (cloudSyncEnabled /\ isOnline /\ recording /\ starting.pc = "idle")
        => (apiSessionCreated /\ uploadInterval)

\* C21: while a session is recording, the callback the camera's frames are
\* delivered to is the one of App, which hands every frame with gaze data to
\* addDataPoint
C21_FramesReachSession ==
    recording => listener = AppListener

scannedColumns == {scannedPixels[k].x : k \in 1..Len(scannedPixels)}

scannedRows == {scannedPixels[k].y : k \in 1..Len(scannedPixels)}

\* the columns and the rows of the bitmap from center - reach, rounded
\* towards zero, up to and without center + reach, rounded towards zero
windowColumns(reach) ==
    {x \in 0..(call.bitmap.width - 1) :
        /\ toInt(Sub(call.eyeCenterX, reach)) <= x
        /\ x < toInt(Add(call.eyeCenterX, reach))}

windowRows(reach) ==
    {y \in 0..(call.bitmap.height - 1) :
        /\ toInt(Sub(call.eyeCenterY, reach)) <= y
        /\ y < toInt(Add(call.eyeCenterY, reach))}

\* C31 as stated: the columns scanned are those from center - searchRadius to
\* center + searchRadius inside the image, searchRadius being the size the
\* localizer is called with (15% of the face width), and the rows scanned
\* are rows of the window of the same reach.
C31_WindowOfRadius ==
    irisScanned
    => /\ scannedColumns = windowColumns(call.eyeRegionSize)
       /\ scannedRows \subseteq windowRows(call.eyeRegionSize)

\* C31: the window is the square of side searchRadius centered on the eye
\* region: the columns scanned are those from center - searchRadius / 2 up
\* to and without center + searchRadius / 2, the bounds rounded towards
\* zero and clipped to the image, and the rows scanned are rows from
\* center - searchRadius / 2 up to and without center + searchRadius / 2.
C31_WindowOfHalfRadius ==
    irisScanned
    => /\ scannedColumns = windowColumns(Div(call.eyeRegionSize, Int2Num(2)))
       /\ scannedRows \subseteq windowRows(Div(call.eyeRegionSize, Int2Num(2)))

\* a region of size 4 centered on column 3 of an image 8 wide: the columns
\* 1 to 4 are scanned, not the columns 0 to 6
C31_Witness ==
    /\ irisScanned
    /\ call.eyeCenterX = Int2Num(3)
    /\ call.eyeRegionSize = Int2Num(4)
    /\ scannedColumns = 1..4
    /\ windowColumns(call.eyeRegionSize) = 0..6

\* C32: for a region with a center that is a number and a size that is not
\* negative, the X the localizer returns is at most half the size away from
\* the center X of the region, whatever the image holds
C32_BoundedDisplacement ==
    (/\ call.fn = "detectIrisInEyeRegion"
     /\ result.returned
     /\ isFinite(call.eyeCenterX)
     /\ ~Less(call.eyeRegionSize, Int2Num(0)))
    => LET movement == Sub(result.value.x, call.eyeCenterX)
           maxMovement == Mul(call.eyeRegionSize, Rat(1, 2))
       IN  /\ isFinite(result.value.x)
           /\ ~Less(maxMovement, movement)
           /\ ~Less(movement, Neg(maxMovement))

\* the darkest pixel lies in the leftmost column of the window, 5/2 left of
\* the center of a region of size 4: the X returned is 2 left of the center
C32_Witness ==
    /\ irisScanned
    /\ call.eyeCenterX = Rat(9, 2)
    /\ call.eyeRegionSize = Int2Num(4)
    /\ result.value.darkestX = Int2Num(2)
    /\ result.value.x = Rat(5, 2)

\* C40: every pixel the localizer reads lies inside the bitmap, for any
\* center and size of the eye region
C40_ReadsInsideBitmap ==
    (call.fn = "detectIrisInEyeRegion" /\ result.returned)
    => /\ result.value.reads = Len(scannedPixels)
       /\ \A k \in 1..Len(scannedPixels) :
             /\ 0 <= scannedPixels[k].x /\ scannedPixels[k].x < call.bitmap.width
             /\ 0 <= scannedPixels[k].y /\ scannedPixels[k].y < call.bitmap.height

\* a region of size 4 around row 5 of an image 6 high and column 1/2: its
\* third scan line would be row 6, and the rows 4 and 5 and the columns 0
\* and 1 are read
C40_Witness ==
    /\ irisScanned
    /\ call.eyeCenterX = Rat(1, 2)
    /\ call.eyeCenterY = Int2Num(5)
    /\ call.eyeRegionSize = Int2Num(4)
    /\ scannedColumns = {0, 1}
    /\ scannedRows = {4, 5}

C33_AddDataPointGuards ==
    [][/\ ~recording => /\ Len(sessionData') <= Len(sessionData)
                        /\ frameCounter' <= frameCounter
                        /\ Len(uploadQueue') <= Len(uploadQueue)
       /\ \A frame \in Frames :
             (onFrame(frame) /\ (~recording \/ frame.gazeData = <<>>))
             => UNCHANGED <<sessionData, frameCounter, uploadQueue>>]_vars

\* a paused session with a recorded point while the callback of App is
\* subscribed: frames are delivered to addDataPoint
C33_Witness ==
    /\ currentSession # <<>>
    /\ currentSession[1].status = "paused"
    /\ listener = AppListener
    /\ Len(sessionData) = 1
    /\ frameCounter = 1
    /\ Len(uploadQueue) = 1

\* the data points of the batches whose upload is awaited: the periodic batch
\* and the batch of the final loop of stopSession
inFlight ==
    {uploading[i] : i \in 1..Len(uploading)}
    \cup (IF stopping.pc = "uploadDataBatch"
          THEN {stopping.batch[i] : i \in 1..Len(stopping.batch)}
          ELSE {})

queuedPoints == {uploadQueue[i] : i \in 1..Len(uploadQueue)}

increasingFrames(queue) ==
    \A i \in 1..Len(queue) : \A j \in 1..Len(queue) :
        i < j => queue[i].frame_number < queue[j].frame_number

\* C34: within a session, upload batching never loses, duplicates or reorders
\* data: a point leaves the upload queue only into a batch whose upload is
\* awaited, a point of such a batch goes away only when its upload succeeded
\* and goes back to the queue otherwise, no point is both queued and in a
\* batch, and the queue is in increasing frame_number order.
C34_UploadKeepsData ==
    [][sessions' = sessions
       => /\ \A point \in queuedPoints : point \in queuedPoints' \cup inFlight'
          /\ \A point \in inFlight :
                 \/ point \in inFlight'
                 \/ uploadDataBatchAnswer /\ point \notin queuedPoints'
                 \/ ~uploadDataBatchAnswer /\ point \in queuedPoints'
          /\ queuedPoints' \cap inFlight' = {}
          /\ increasingFrames(uploadQueue')]_vars

\* C35: a stopSession that is awaiting its final sync or its saves leaves a
\* session started meanwhile alone: no step of it changes the current session,
\* its data points or its frame counter, nor writes the stored item of that
\* session, so what it saves is the session it stopped.
C35_StopLeavesNewSession ==
    [][(/\ stopping.pc # "idle"
        /\ stopping' # stopping
        /\ currentSession # <<>>
        /\ currentSession[1].status # "completed")
       => /\ UNCHANGED <<currentSession, sessionData, frameCounter>>
          /\ sessionStore'[currentSession[1].session_id]
                 = sessionStore[currentSession[1].session_id]]_vars

\* C36: while a session is current its data points are as many as the frame
\* counter says and carry the frame numbers 1..n in recording order; once the
\* session is stopped its total_frames is n, in the session and in the
\* metadata saved for it.
C36_FramesNumbered ==
    currentSession # <<>>
    => /\ Len(sessionData) = frameCounter
       /\ \A k \in 1..Len(sessionData) :
              /\ sessionData[k].frame_number = k
              /\ sessionData[k].session_id = currentSession[1].session_id
       /\ currentSession[1].status = "completed"
          => currentSession[1].total_frames = frameCounter
       /\ LET saved == sessionStore[currentSession[1].session_id].meta
          IN  (saved # <<>> /\ saved[1].status = "completed")
              => saved[1].total_frames = frameCounter

\* a session of two data points has been stopped and its metadata saved
C36_Witness ==
    /\ currentSession # <<>>
    /\ currentSession[1].status = "completed"
    /\ Len(sessionData) = 2
    /\ sessionStore[currentSession[1].session_id].meta = currentSession
    /\ currentSession[1].total_frames = 2

reported == call.fn = "session" /\ result.returned /\ result.api # <<>>

\* C37: for a session recorded with a transform of slope other than 0, the
\* calibration values getSessionDataForAPI reports are the inverse images of
\* the targets -1, 0 and 1 under the transform, and the first and the final
\* payload of the cloud sync report the same three values.
C37_CalibrationValues ==
    (/\ reported
     /\ result.metadata.calibration_used # <<>>
     /\ result.metadata.calibration_used[1].slope.n # 0)
    => LET slope == result.metadata.calibration_used[1].slope
           intercept == result.metadata.calibration_used[1].intercept
           values == result.api[1].calibration
       IN  /\ Add(Mul(slope, values.left), intercept) = Int2Num(-1)
           /\ Add(Mul(slope, values.center), intercept) = Int2Num(0)
           /\ Add(Mul(slope, values.right), intercept) = Int2Num(1)
           /\ result.initialData.calibration = values
           /\ result.finalData[1].calibration = values

\* C38: the x of a point, in the final payload of the cloud sync and in
\* getSessionDataForAPI, is the calibrated gaze of the point when it has one
\* and the raw gaze when it has none.
C38_CalibratedFirst ==
    reported
    => \A k \in 1..Len(result.points) :
           LET point == result.points[k]
               expected == IF point.gaze_calibrated # <<>>
                           THEN point.gaze_calibrated[1]
                           ELSE point.gaze_raw
           IN  /\ result.finalData[1].data[k].x = expected
               /\ result.api[1].data[k].x = expected
====
